---------------------------- MODULE Spec2Model ----------------------------
(***************************************************************************)
(* A model of kvlite (lofoneh/kvlite): the WAL record codec, the in-memory *)
(* store with TTL, the snapshot writer and the engine that coordinates     *)
(* them (WAL-then-apply operations, compaction, recovery).                 *)
(*                                                                         *)
(* Strings are sequences of one-character strings, so that the escaping,  *)
(* splitting and parsing done by the code are computed, not assumed.       *)
(***************************************************************************)
EXTENDS Integers, Sequences, FiniteSets, TLC

(***************************************************************************)
(* Bounds of the model.                                                    *)
(***************************************************************************)
\* longest key / value drawn for the codec specification
MaxStrLen == 2
\* mutating operations issued to the engine in one run
MaxOps == 3
\* times the engine is opened on the data directory in one run
MaxOpens == 2
\* the clock stops at this time
MaxTime == 4
\* longest TTL given to SetWithTTL and Expire
MaxTTL == 2

(***************************************************************************)
(* Characters and strings.                                                 *)
(***************************************************************************)
BS == "\\"
PIPE == "|"
NL == "\n"

\* key and value bytes the codec specification draws from
Alphabet == {BS, PIPE, NL, "n"}

StringsUpTo(n) == UNION {[1..m -> Alphabet] : m \in 0..n}

Digits == <<"0", "1", "2", "3", "4", "5", "6", "7", "8", "9">>

DigitSet == {Digits[i] : i \in 1..10}

DigitVal(c) == CHOOSE i \in 0..9 : Digits[i + 1] = c

\* unicode.IsSpace restricted to the bytes the model uses
IsSpace(c) == c \in {" ", "\t", "\n", "\r"}

\* strings.ReplaceAll(s, old, new) for a non-empty old: leftmost,
\* non-overlapping matches
RECURSIVE ReplaceAll(_, _, _)
ReplaceAll(s, old, new) ==
    IF Len(s) < Len(old) THEN s
    ELSE IF SubSeq(s, 1, Len(old)) = old
         THEN new \o ReplaceAll(SubSeq(s, Len(old) + 1, Len(s)), old, new)
         ELSE <<Head(s)>> \o ReplaceAll(Tail(s), old, new)

\* strings.TrimSpace
RECURSIVE TrimLeft(_)
TrimLeft(s) == IF s # <<>> /\ IsSpace(Head(s)) THEN TrimLeft(Tail(s)) ELSE s

RECURSIVE TrimRight(_)
TrimRight(s) ==
    IF s # <<>> /\ IsSpace(s[Len(s)]) THEN TrimRight(SubSeq(s, 1, Len(s) - 1)) ELSE s

TrimSpace(s) == TrimRight(TrimLeft(s))

\* fmt's %d of a non-negative integer
RECURSIVE Itoa(_)
Itoa(n) == IF n < 10 THEN <<Digits[n + 1]>> ELSE Itoa(n \div 10) \o <<Digits[(n % 10) + 1]>>

RECURSIVE DigitsVal(_, _)
DigitsVal(s, acc) ==
    IF s = <<>> THEN acc ELSE DigitsVal(Tail(s), acc * 10 + DigitVal(Head(s)))

AllDigits(s) == s # <<>> /\ \A i \in 1..Len(s) : s[i] \in DigitSet

\* strconv.ParseInt(s, 10, 64): an optional sign, then digits.  The model's
\* numbers stay far below the 64-bit range, so the range error is not drawn.
ParseInt(s) ==
    LET body == IF s # <<>> /\ Head(s) \in {"+", "-"} THEN Tail(s) ELSE s
    IN  IF ~AllDigits(body) \/ Len(body) > 9 THEN [ok |-> FALSE, val |-> 0]
        ELSE [ok |-> TRUE,
              val |-> IF Head(s) = "-" THEN 0 - DigitsVal(body, 0) ELSE DigitsVal(body, 0)]

\* strconv.ParseUint(s, 10, 32): digits only
ParseUint(s) ==
    IF ~AllDigits(s) \/ Len(s) > 9 THEN [ok |-> FALSE, val |-> 0]
    ELSE [ok |-> TRUE, val |-> DigitsVal(s, 0)]


(***************************************************************************)
(* WAL records: internal/wal/record.go                                     *)
(***************************************************************************)
OpSet == <<"S", "E", "T">>
OpDelete == <<"D", "E", "L", "E", "T", "E">>
OpClear == <<"C", "L", "E", "A", "R">>

OpTypes == {OpSet, OpDelete, OpClear}

\* byte values of the characters the model writes
AsciiTable ==
    {<<"\t", 9>>, <<"\n", 10>>, <<"\r", 13>>, <<" ", 32>>, <<"+", 43>>, <<"-", 45>>,
     <<"0", 48>>, <<"1", 49>>, <<"2", 50>>, <<"3", 51>>, <<"4", 52>>, <<"5", 53>>,
     <<"6", 54>>, <<"7", 55>>, <<"8", 56>>, <<"9", 57>>,
     <<"A", 65>>, <<"C", 67>>, <<"D", 68>>, <<"E", 69>>, <<"L", 76>>, <<"R", 82>>,
     <<"S", 83>>, <<"T", 84>>, <<"X", 88>>, <<"\\", 92>>,
     <<"a", 97>>, <<"b", 98>>, <<"n", 110>>, <<"v", 118>>, <<"w", 119>>, <<"|", 124>>}

CharCode(c) == (CHOOSE p \in AsciiTable : p[1] = c)[2]

\* crc32.ChecksumIEEE stands outside the repository (hash/crc32).  It is
\* modelled as a deterministic hash of the bytes, a polynomial in the byte
\* values kept below 2^16: the code only ever compares two checksums.
RECURSIVE HashBytes(_, _)
HashBytes(data, h) ==
    IF data = <<>> THEN h
    ELSE HashBytes(Tail(data), (h * 31 + CharCode(Head(data))) % 65521)

ChecksumIEEE(data) == HashBytes(data, 7)

\* fmt's %d
FormatInt(n) == IF n < 0 THEN <<"-">> \o Itoa(0 - n) ELSE Itoa(n)

\* (r *Record) calculateChecksum: over "%d|%s|%s|%s" of the raw fields
calculateChecksum(r) ==
    ChecksumIEEE(FormatInt(r.Timestamp) \o <<PIPE>> \o r.Op \o <<PIPE>> \o r.Key
                 \o <<PIPE>> \o r.Value)

\* NewRecord, with time.Now().UnixNano() passed in
NewRecord(op, key, value, ts) ==
    LET r == [Timestamp |-> ts, Op |-> op, Key |-> key, Value |-> value, Checksum |-> 0]
    IN  [r EXCEPT !.Checksum = calculateChecksum(r)]

\* (r *Record) Validate
Validate(r) == r.Checksum = calculateChecksum(r)

\* escape: backslash first, then pipe, then newline
escape(s) ==
    ReplaceAll(ReplaceAll(ReplaceAll(s, <<BS>>, <<BS, BS>>), <<PIPE>>, <<BS, PIPE>>),
               <<NL>>, <<BS, "n">>)

\* unescape: newline first, then pipe, backslash last
unescape(s) ==
    ReplaceAll(ReplaceAll(ReplaceAll(s, <<BS, "n">>, <<NL>>), <<BS, PIPE>>, <<PIPE>>),
               <<BS, BS>>, <<BS>>)

\* (r *Record) Encode: "%d|%s|%s|%s|%d\n"
Encode(r) ==
    FormatInt(r.Timestamp) \o <<PIPE>> \o r.Op \o <<PIPE>> \o escape(r.Key) \o <<PIPE>>
    \o escape(r.Value) \o <<PIPE>> \o FormatInt(r.Checksum) \o <<NL>>

\* splitRecord: split at every '|' that is not preceded by an unconsumed
\* backslash; the backslashes stay in the parts
RECURSIVE splitLoop(_, _, _, _)
splitLoop(line, parts, current, escaped) ==
    IF line = <<>> THEN Append(parts, current)
    ELSE LET c == Head(line)
         IN  IF escaped THEN splitLoop(Tail(line), parts, Append(current, c), FALSE)
             ELSE IF c = BS THEN splitLoop(Tail(line), parts, Append(current, c), TRUE)
             ELSE IF c = PIPE THEN splitLoop(Tail(line), Append(parts, current), <<>>, FALSE)
             ELSE splitLoop(Tail(line), parts, Append(current, c), FALSE)

splitRecord(line) == splitLoop(line, <<>>, <<>>, FALSE)

NoRecord == [Timestamp |-> 0, Op |-> <<>>, Key |-> <<>>, Value |-> <<>>, Checksum |-> 0]

DecodeError(e) == [ok |-> FALSE, err |-> e, rec |-> NoRecord]

\* Decode: trim, split, parse the fields, unescape, validate the checksum
Decode(rawLine) ==
    LET line == TrimSpace(rawLine)
        parts == splitRecord(line)
    IN  IF line = <<>> THEN DecodeError("empty line")
        ELSE IF Len(parts) # 5 THEN DecodeError("invalid record format")
        ELSE IF ~ParseInt(parts[1]).ok THEN DecodeError("invalid timestamp")
        ELSE IF parts[2] \notin OpTypes THEN DecodeError("invalid operation")
        ELSE IF ~ParseUint(parts[5]).ok THEN DecodeError("invalid checksum")
        ELSE LET record == [Timestamp |-> ParseInt(parts[1]).val,
                            Op |-> parts[2],
                            Key |-> unescape(parts[3]),
                            Value |-> unescape(parts[4]),
                            Checksum |-> ParseUint(parts[5]).val]
             IN  IF ~Validate(record) THEN DecodeError("record validation failed")
                 ELSE [ok |-> TRUE, err |-> "", rec |-> record]

(***************************************************************************)
(* The in-memory store: internal/store/entry.go, internal/store/store.go.  *)
(* Store.data is a function from the present keys to entries; every        *)
(* operator below is one method, run under the store's lock.               *)
(***************************************************************************)
Keys == {<<"a">>, <<"b">>}

Values == {<<"v">>, <<"w", PIPE>>}

EmptyData == [k \in {} |-> 0]

\* NewEntry
NewEntry(value) == [Value |-> value, ExpiresAt |-> 0]

\* NewEntryWithTTL, at time t
NewEntryWithTTL(value, ttl, t) ==
    [Value |-> value, ExpiresAt |-> IF ttl > 0 THEN t + ttl ELSE 0]

\* (e *Entry) IsExpired, at time t
IsExpired(e, t) == IF e.ExpiresAt = 0 THEN FALSE ELSE t > e.ExpiresAt

\* (e *Entry) TTL, at time t
EntryTTL(e, t) ==
    IF e.ExpiresAt = 0 THEN 0
    ELSE IF e.ExpiresAt - t <= 0 THEN 0 ELSE e.ExpiresAt - t

\* s.data[key] = entry
Put(data, key, entry) ==
    [k \in (DOMAIN data) \cup {key} |-> IF k = key THEN entry ELSE data[k]]

\* delete(s.data, key)
Remove(data, key) == [k \in (DOMAIN data) \ {key} |-> data[k]]

\* (s *Store) Set
StoreSet(data, key, value) == Put(data, key, NewEntry(value))

\* (s *Store) SetWithTTL
StoreSetWithTTL(data, key, value, ttl, t) == Put(data, key, NewEntryWithTTL(value, ttl, t))

\* (s *Store) Get: the value, whether it was found, and the map afterwards
\* (an expired entry is deleted)
StoreGet(data, key, t) ==
    IF key \notin DOMAIN data THEN [data |-> data, value |-> <<>>, ok |-> FALSE]
    ELSE IF IsExpired(data[key], t)
         THEN [data |-> Remove(data, key), value |-> <<>>, ok |-> FALSE]
         ELSE [data |-> data, value |-> data[key].Value, ok |-> TRUE]

\* (s *Store) Delete
StoreDelete(data, key) == [data |-> Remove(data, key), existed |-> key \in DOMAIN data]

\* (s *Store) Expire
StoreExpire(data, key, ttl, t) ==
    IF key \notin DOMAIN data \/ IsExpired(data[key], t) THEN [data |-> data, ok |-> FALSE]
    ELSE [data |-> Put(data, key, [data[key] EXCEPT !.ExpiresAt = IF ttl > 0 THEN t + ttl ELSE 0]),
          ok |-> TRUE]

\* a Persist that answers true and leaves the deadline where it is
StorePersistKeeping(data, key, t) ==
    [data |-> data, ok |-> key \in DOMAIN data /\ ~IsExpired(data[key], t)]

\* (s *Store) Persist
StorePersist(data, key, t) ==
    IF key \notin DOMAIN data \/ IsExpired(data[key], t) THEN [data |-> data, ok |-> FALSE]
    ELSE [data |-> Put(data, key, [data[key] EXCEPT !.ExpiresAt = 0]), ok |-> TRUE]

\* (s *Store) TTL
StoreTTL(data, key, t) ==
    IF key \notin DOMAIN data \/ IsExpired(data[key], t) THEN 0 ELSE EntryTTL(data[key], t)

\* (s *Store) Len
StoreLen(data, t) == Cardinality({k \in DOMAIN data : ~IsExpired(data[k], t)})

\* (s *Store) Clear
StoreClear == EmptyData

\* a Range that does not skip expired entries
StoreRangeAll(data, t) == [k \in DOMAIN data |-> data[k].Value]

\* (s *Store) Range, collecting into a map as Engine.Compact does
StoreRange(data, t) == [k \in {x \in DOMAIN data : ~IsExpired(data[x], t)} |-> data[k].Value]

\* a sweep that removes nothing
SweepNothing(data, t) == [data |-> data, deleted |-> 0]

\* (s *Store) DeleteExpired
StoreDeleteExpired(data, t) ==
    [data |-> [k \in {x \in DOMAIN data : ~IsExpired(data[x], t)} |-> data[k]],
     deleted |-> Cardinality({k \in DOMAIN data : IsExpired(data[k], t)})]

(***************************************************************************)
(* Files.  A file is absent or holds bytes.  The WAL file holds            *)
(* characters; a snapshot file holds the JSON text of a Snapshot, kept as  *)
(* the sequence of its tokens, so that a file can hold a part of it.       *)
(* internal/snapshot/snapshot.go                                           *)
(***************************************************************************)
NoFile == [exists |-> FALSE, bytes |-> <<>>]

FileOf(bytes) == [exists |-> TRUE, bytes |-> bytes]

\* the Snapshot that Writer.Create builds from the data, at time t
SnapshotOf(data, t) ==
    [Timestamp |-> t, Version |-> 1, KeyCount |-> Cardinality(DOMAIN data), Data |-> data]

\* the keys in the order encoding/json writes the keys of a map
KeyOrder == <<<<"a">>, <<"b">>>>

JsonOpen == <<"{">>
JsonClose == <<"}">>

\* a JSON string token
JsonString(str) == <<"\"">> \o str

IsJsonString(tok) == tok # <<>> /\ Head(tok) = "\""

RECURSIVE EncodeData(_, _)
EncodeData(keys, data) ==
    IF keys = <<>> THEN <<>>
    ELSE <<JsonString(Head(keys)), JsonString(data[Head(keys)])>> \o EncodeData(Tail(keys), data)

\* json.Encoder.Encode(snapshot): the tokens of the object
EncodeSnapshot(snap) ==
    <<JsonOpen, Itoa(snap.Timestamp), Itoa(snap.Version), Itoa(snap.KeyCount)>>
        \o EncodeData(SelectSeq(KeyOrder, LAMBDA k : k \in DOMAIN snap.Data), snap.Data)
        \o <<JsonClose>>

NoSnapshotValue == [Timestamp |-> 0, Version |-> 0, KeyCount |-> 0, Data |-> EmptyData]

\* json.Decoder.Decode(&snapshot): an error unless the text is a whole object
DecodeSnapshot(bytes) ==
    LET n == Len(bytes)
        pairs == (n - 5) \div 2
        wellFormed ==
            /\ n >= 5 /\ (n - 5) % 2 = 0
            /\ bytes[1] = JsonOpen /\ bytes[n] = JsonClose
            /\ \A i \in 2..4 : ParseInt(bytes[i]).ok
            /\ \A i \in 5..(n - 1) : IsJsonString(bytes[i])
    IN  IF ~wellFormed THEN [ok |-> FALSE, snap |-> NoSnapshotValue]
        ELSE [ok |-> TRUE,
              snap |-> [Timestamp |-> ParseInt(bytes[2]).val,
                        Version |-> ParseInt(bytes[3]).val,
                        KeyCount |-> ParseInt(bytes[4]).val,
                        Data |-> [k \in {Tail(bytes[3 + 2 * i]) : i \in 1..pairs} |->
                                     LET i == CHOOSE j \in 1..pairs : Tail(bytes[3 + 2 * j]) = k
                                     IN  Tail(bytes[4 + 2 * i])]]]

\* snapshot.Load: no file is no snapshot; a file that does not decode is an
\* error
Load(file) ==
    IF ~file.exists THEN [ok |-> TRUE, found |-> FALSE, snap |-> NoSnapshotValue]
    ELSE LET d == DecodeSnapshot(file.bytes)
         IN  [ok |-> d.ok, found |-> d.ok, snap |-> d.snap]

\* the paths Writer.Create writes to and renames to
finalPath == "kvlite.snapshot"

\* a temporary path that is the snapshot's own path: Create then writes
\* the snapshot in place
tempPathInPlace(ts) == finalPath

tempPath(ts) == "kvlite.snapshot.tmp"

(***************************************************************************)
(* WAL replay and recovery: internal/wal/wal.go, internal/engine/engine.go *)
(***************************************************************************)
\* bufio.ScanLines drops one trailing carriage return of a line
dropCR(line) ==
    IF line # <<>> /\ line[Len(line)] = "\r" THEN SubSeq(line, 1, Len(line) - 1) ELSE line

\* bufio.Scanner with ScanLines: the newline-terminated lines, and a last
\* unterminated line when it is not empty
RECURSIVE scanLoop(_, _, _)
scanLoop(bytes, current, lines) ==
    IF bytes = <<>> THEN (IF current = <<>> THEN lines ELSE Append(lines, dropCR(current)))
    ELSE IF Head(bytes) = NL THEN scanLoop(Tail(bytes), <<>>, Append(lines, dropCR(current)))
    ELSE scanLoop(Tail(bytes), Append(current, Head(bytes)), lines)

ScanLines(bytes) == scanLoop(bytes, <<>>, <<>>)

\* a replay callback that gives every replayed SET an expiry
ApplyRecordWithTTL(st, record) ==
    IF record.Op = OpSet
    THEN [ok |-> TRUE,
          data |-> StoreSetWithTTL(st.data, record.Key, record.Value, 1, record.Timestamp),
          count |-> st.count + 1]
    ELSE IF record.Op = OpDelete
    THEN [ok |-> TRUE, data |-> StoreDelete(st.data, record.Key).data, count |-> st.count + 1]
    ELSE IF record.Op = OpClear
    THEN [ok |-> TRUE, data |-> StoreClear, count |-> st.count + 1]
    ELSE [ok |-> FALSE, data |-> st.data, count |-> st.count]

\* the callback Engine.recover hands to Replay: apply one record to the
\* store and count it
ApplyRecord(st, record) ==
    IF record.Op = OpSet
    THEN [ok |-> TRUE, data |-> StoreSet(st.data, record.Key, record.Value), count |-> st.count + 1]
    ELSE IF record.Op = OpDelete
    THEN [ok |-> TRUE, data |-> StoreDelete(st.data, record.Key).data, count |-> st.count + 1]
    ELSE IF record.Op = OpClear
    THEN [ok |-> TRUE, data |-> StoreClear, count |-> st.count + 1]
    ELSE [ok |-> FALSE, data |-> st.data, count |-> st.count]

\* a replay loop that passes over a record it cannot decode
RECURSIVE replayLoopSkipping(_, _)
replayLoopSkipping(lines, st) ==
    IF lines = <<>> THEN st
    ELSE IF Head(lines) = <<>> THEN replayLoopSkipping(Tail(lines), st)
    ELSE LET d == Decode(Head(lines))
         IN  IF ~d.ok THEN replayLoopSkipping(Tail(lines), st)
             ELSE LET r == ApplyRecord(st, d.rec)
                  IN  IF ~r.ok THEN r ELSE replayLoopSkipping(Tail(lines), r)

\* the loop of (w *WAL) Replay: empty lines are skipped, the first record
\* that does not decode or apply ends the replay with an error
RECURSIVE replayLoop(_, _)
replayLoop(lines, st) ==
    IF lines = <<>> THEN st
    ELSE IF Head(lines) = <<>> THEN replayLoop(Tail(lines), st)
    ELSE LET d == Decode(Head(lines))
         IN  IF ~d.ok THEN [st EXCEPT !.ok = FALSE]
             ELSE LET r == ApplyRecord(st, d.rec)
                  IN  IF ~r.ok THEN r ELSE replayLoop(Tail(lines), r)

\* (w *WAL) Replay: a file that does not exist replays nothing
Replay(file, st) ==
    IF ~file.exists THEN st ELSE replayLoop(ScanLines(file.bytes), st)

\* the snapshot's data set into the new store, key by key
LoadSnapshot(l) ==
    IF l.found THEN [k \in DOMAIN l.snap.Data |-> NewEntry(l.snap.Data[k])] ELSE EmptyData

\* (e *Engine) recover: the store and the entry count after loading the
\* snapshot and replaying the WAL, or ok = FALSE
recover(snap, wal) ==
    LET l == Load(snap)
    IN  IF ~l.ok THEN [ok |-> FALSE, data |-> EmptyData, count |-> 0]
        ELSE Replay(wal, [ok |-> TRUE, data |-> LoadSnapshot(l), count |-> 0])

\* a Write that leaves the record in the bufio.Writer's buffer: it returns
\* nil and nothing has reached the file
WALWriteUnflushed(file, err, sync, record, outcome, n) ==
    [file |-> file, err |-> err, ok |-> TRUE, synced |-> sync]

\* (w *WAL) Write: encode, write to the buffer, flush, sync in sync mode.
\* outcome names the step that fails ("flush": n bytes of the record reach
\* the file and the bufio.Writer keeps its error; "sync": the record is in
\* the file and file.Sync fails), or "ok".  err is the writer's sticky error.
WALWrite(file, err, sync, record, outcome, n) ==
    LET encoded == Encode(record)
    IN  IF err THEN [file |-> file, err |-> TRUE, ok |-> FALSE, synced |-> FALSE]
        ELSE IF outcome = "flush"
        THEN [file |-> FileOf(file.bytes \o SubSeq(encoded, 1, n)), err |-> TRUE,
              ok |-> FALSE, synced |-> FALSE]
        ELSE IF outcome = "sync" /\ sync
        THEN [file |-> FileOf(file.bytes \o encoded), err |-> FALSE, ok |-> FALSE,
              synced |-> FALSE]
        ELSE [file |-> FileOf(file.bytes \o encoded), err |-> FALSE, ok |-> TRUE,
              synced |-> sync]

(***************************************************************************)
(* State.                                                                  *)
(***************************************************************************)
VARIABLES
    store,          \* Store.data of the running engine
    now,            \* time.Now()
    walFile,        \* <dir>/kvlite.wal
    walErr,         \* the error the WAL's bufio.Writer keeps after a failed flush
    syncMode,       \* Options.SyncMode
    snapFile,       \* <dir>/kvlite.snapshot
    walEntryCount,  \* Engine.walEntryCount
    eState,         \* "closed", "running", "crashed", or "failed" (New returned an error)
    clients,        \* per connection: the engine call it is in and where
    cpc,            \* where Engine.Compact is; it holds Engine.mu while not "idle"
    cdata,          \* the copy of the keyspace Compact took
    nOps,           \* mutating operations issued so far
    opens,          \* calls of New so far
    cleanStop,      \* no client call was in progress when the engine last stopped
    sRes,           \* the last result of a direct Store call
    cPc, cRec, cLine, cDec, \* the codec round trip
    damaged,        \* the WAL file was damaged while the engine was down
    tmpFile,        \* <dir>/kvlite.snapshot.tmp.<timestamp> of the Create in progress
    swPc,           \* where Writer.Create is
    swOld,          \* kvlite.snapshot as it was when Create began
    swNew,          \* the text Create is writing
    conns,          \* per connection: the server command it is in
    hist,           \* per connection: the commands answered so far, with their replies
    srv,            \* the api.Server: listener, shutdown channel, counters, Start and Shutdown
    socks,          \* per TCP connection: both ends, the bytes in flight, its worker
    pool,           \* the client's Pool and the Connections it has dialled
    sched,          \* Engine.enableAnalytics and the engine's SmartScheduler
    lk,             \* Store.mu and the goroutines that are in a call of the Store
    bg              \* the engine's background goroutines: the ttl.Manager and compactionLoop

engineVars ==
    <<store, now, walFile, walErr, syncMode, snapFile, walEntryCount, eState, clients,
      cpc, cdata, nOps, opens, cleanStop>>

codecVars == <<cPc, cRec, cLine, cDec>>

snapVars == <<tmpFile, swPc, swOld, swNew>>

srvVars == <<conns, hist>>

moreVars == <<srv, socks, pool, sched, lk, bg>>

sideVars == <<codecVars, damaged, snapVars, srvVars, moreVars>>

vars == <<engineVars, sRes, sideVars>>

Clients == {1, 2}

\* the TCP connections clients make to the server
Sockets == {1, 2}

\* NewServer: nothing listens yet, the shutdown channel is open, Start and
\* Shutdown have not begun; cur is the connection Start has just accepted
NewServer ==
    [listener |-> "none", shutdown |-> FALSE, activeConns |-> 0, wg |-> 0,
     startPc |-> "listen", cur |-> 0, shutdownPc |-> "idle"]

\* a connection nobody has made yet.  sent is what the client wrote, input
\* the part of it the server has not read, output what the server wrote;
\* loaded is the value of activeConns Start read for it, line the line its
\* worker is executing
NoSocket ==
    [state |-> "none", clientOpen |-> FALSE, serverOpen |-> FALSE, sent |-> <<>>,
     input |-> <<>>, output |-> <<>>, wpc |-> "none", line |-> <<>>, loaded |-> 0]

\* no Pool yet.  A Pool holds its options, the active counter, the closed
\* flag and the channel conns of idle connections (ids, oldest first); cs
\* is the state of every Connection it dialled: "out" with a caller,
\* "idle" in the channel, "closed"; alive says whether the liveness probe
\* would time out
NoPool ==
    [made |-> FALSE, closed |-> FALSE, maxIdle |-> 0, maxActive |-> 0, active |-> 0,
     conns |-> <<>>, cs |-> <<>>, alive |-> <<>>]

\* the goroutines that call the Store
Goroutines == {1, 2, 3}

\* Store.mu unlocked and no goroutine in a call.  writer is the goroutine
\* holding the write lock, pending the one whose Lock waits for the readers
\* to leave, readers those holding a read lock (0: none); g is each
\* goroutine's call and how far it is
NoLock ==
    [writer |-> 0, pending |-> 0, readers |-> {},
     g |-> [i \in Goroutines |-> [st |-> "idle", op |-> "none", key |-> <<>>]]]

\* an engine made without Options.EnableAnalytics: no tracker and no
\* scheduler
NoScheduler == [enableAnalytics |-> FALSE]

\* no engine yet: no ttl.Manager goroutine, no compactionLoop goroutine, no
\* WAL handle.  ttl is the Manager (on: expirationLoop is running, and its
\* Stats), loop is true while compactionLoop has not returned, tick is true
\* while compactionTicker.C holds a tick not yet received, stop is true
\* once stopCompaction is closed, walOpen is the WAL's file handle, closed is
\* true from the return of Engine.Close to the next New
NoStats == [TotalExpired |-> 0, LastExpiredCount |-> 0, ChecksPerformed |-> 0]

NoWorkers ==
    [ttl |-> [on |-> FALSE, stats |-> NoStats], loop |-> FALSE, tick |-> FALSE,
     stop |-> FALSE, walOpen |-> FALSE, closed |-> FALSE]

\* the value a connection writes
ValueOf(c) == IF c = 1 THEN <<"v">> ELSE <<"w", PIPE>>

\* a connection that is in no engine call; walOk = "fail" marks that its
\* last call returned the WAL's error
IdleClient ==
    [pc |-> "idle", op |-> "none", key |-> <<>>, value |-> <<>>, ttl |-> 0,
     walOk |-> "none", flushed |-> FALSE, synced |-> FALSE, applied |-> FALSE]

AllIdle == \A c \in Clients : clients[c].pc = "idle"

\* a connection between two commands; in a command, stage says what comes
\* next: "write" the engine call that writes key and val, "engine" the
\* rest of that call; arg is the command's argument, rest holds the pairs
\* MSET has still to set, reply the answer to send when the command is
\* through
IdleConn ==
    [cmd |-> "none", stage |-> "idle", key |-> <<>>, arg |-> <<>>, val |-> <<>>,
     ttl |-> 0, rest |-> <<>>, reply |-> <<>>, began |-> 0]

ValuesOf(data) == [k \in DOMAIN data |-> data[k].Value]

\* a fresh data directory and no engine yet
EngineInit ==
    /\ store = EmptyData
    /\ now = 1
    /\ walFile = NoFile
    /\ walErr = FALSE
    /\ syncMode \in BOOLEAN
    /\ snapFile = NoFile
    /\ walEntryCount = 0
    /\ eState = "closed"
    /\ clients = [c \in Clients |-> IdleClient]
    /\ cpc = "idle"
    /\ cdata = EmptyData
    /\ nOps = 0
    /\ opens = 0
    /\ cleanStop = TRUE
    /\ damaged = FALSE
    /\ tmpFile = NoFile
    /\ swPc = "idle"
    /\ swOld = NoFile
    /\ swNew = <<>>
    /\ conns = [c \in Clients |-> IdleConn]
    /\ hist = [c \in Clients |-> <<>>]
    /\ srv = NewServer
    /\ socks = [s \in Sockets |-> NoSocket]
    /\ pool = NoPool
    /\ sched = NoScheduler
    /\ lk = NoLock
    /\ bg = NoWorkers

CodecIdle ==
    /\ cPc = "off"
    /\ cRec = NoRecord
    /\ cLine = <<>>
    /\ cDec = DecodeError("")

NoResult == [op |-> "none"]

(***************************************************************************)
(* The codec specification: a record is made, encoded, and decoded again,  *)
(* as TestRecord_EncodeDecodeValidate does.                                *)
(***************************************************************************)
CodecInit ==
    /\ cPc = "new"
    /\ \E op \in OpTypes, key \in StringsUpTo(MaxStrLen), value \in StringsUpTo(MaxStrLen) :
           cRec = NewRecord(op, key, value, 17)
    /\ cLine = <<>>
    /\ cDec = DecodeError("")
    /\ EngineInit
    /\ syncMode = FALSE
    /\ sRes = NoResult

CodecEncode ==
    /\ cPc = "new"
    /\ cLine' = Encode(cRec)
    /\ cPc' = "encoded"
    /\ UNCHANGED <<cRec, cDec, engineVars, sRes, damaged, snapVars, srvVars, moreVars>>

CodecDecode ==
    /\ cPc = "encoded"
    /\ cDec' = Decode(cLine)
    /\ cPc' = "decoded"
    /\ UNCHANGED <<cRec, cLine, engineVars, sRes, damaged, snapVars, srvVars, moreVars>>

CodecNext == CodecEncode \/ CodecDecode

SpecCodec == CodecInit /\ [][CodecNext]_vars

\* C5: every record, decoded from its encoding, is accepted and equal to
\* the original in op, key, value and checksum.
RoundTrip ==
    cPc = "decoded" =>
        /\ cDec.ok
        /\ cDec.rec.Op = cRec.Op
        /\ cDec.rec.Key = cRec.Key
        /\ cDec.rec.Value = cRec.Value
        /\ cDec.rec.Checksum = cRec.Checksum

(***************************************************************************)
(* The engine: internal/engine/engine.go.  A call of Set, SetWithTTL,      *)
(* Delete or Clear is three critical sections, each an action: the WAL     *)
(* write (under WAL.mu), the store update (under Store.mu) and the counter *)
(* increment (under Engine.mu).  Nothing is held between them.             *)
(***************************************************************************)
restOfModel == <<sRes, sideVars>>

Running == eState = "running"

\* a call that goes on to the store update whatever Write returned
LogStepIgnoringError(c, op, opType, key, value, ttl, outcome, n) ==
    LET record == NewRecord(opType, key, value, now)
        w == WALWrite(walFile, walErr, syncMode, record, outcome, n)
        call == [IdleClient EXCEPT !.op = op, !.key = key, !.value = value, !.ttl = ttl]
    IN  /\ walFile' = w.file
        /\ walErr' = w.err
        /\ clients' = [clients EXCEPT ![c] =
               [call EXCEPT !.pc = "apply", !.walOk = IF w.ok THEN "ok" ELSE "fail",
                            !.synced = w.synced,
                            !.flushed = (w.file.bytes = walFile.bytes \o Encode(record))]]

\* the client's call has written its record (or failed to) and goes on
\* from there: e.wal.Write(record) and the error return after it
LogStep(c, op, opType, key, value, ttl, outcome, n) ==
    LET record == NewRecord(opType, key, value, now)
        w == WALWrite(walFile, walErr, syncMode, record, outcome, n)
        call == [IdleClient EXCEPT !.op = op, !.key = key, !.value = value, !.ttl = ttl]
    IN  /\ walFile' = w.file
        /\ walErr' = w.err
        /\ clients' = [clients EXCEPT ![c] =
               IF w.ok
               THEN [call EXCEPT !.pc = "apply", !.walOk = "ok", !.synced = w.synced,
                                 !.flushed = (w.file.bytes = walFile.bytes \o Encode(record))]
               ELSE [IdleClient EXCEPT !.walOk = "fail"]]

\* the store update of a call that has written its record
ApplyStep(c, data) ==
    /\ store' = data
    /\ clients' = [clients EXCEPT ![c].pc = "count", ![c].applied = TRUE]

\* e.mu.Lock(); e.walEntryCount++; e.mu.Unlock(); return nil
AckStep(c) ==
    /\ cpc = "idle"
    /\ walEntryCount' = walEntryCount + 1
    /\ clients' = [clients EXCEPT ![c] = IdleClient]

\* Engine.Set, up to the WAL write
SetLog(c, key, value, outcome, n) ==
    /\ Running /\ clients[c].pc = "idle" /\ nOps < MaxOps
    /\ LogStep(c, "set", OpSet, key, value, 0, outcome, n)
    /\ nOps' = nOps + 1
    /\ UNCHANGED <<store, now, syncMode, snapFile, walEntryCount, eState, cpc, cdata, opens,
                   cleanStop, restOfModel>>

\* Engine.Set: e.store.Set(key, value)
SetApply(c) ==
    /\ Running /\ clients[c].pc = "apply" /\ clients[c].op = "set"
    /\ ApplyStep(c, StoreSet(store, clients[c].key, clients[c].value))
    /\ UNCHANGED <<now, walFile, walErr, syncMode, snapFile, walEntryCount, eState, cpc, cdata,
                   nOps, opens, cleanStop, restOfModel>>

\* Engine.Set: the counter and the return
SetAck(c) ==
    /\ Running /\ clients[c].pc = "count" /\ clients[c].op = "set"
    /\ AckStep(c)
    /\ UNCHANGED <<store, now, walFile, walErr, syncMode, snapFile, eState, cpc, cdata, nOps,
                   opens, cleanStop, restOfModel>>

\* Engine.SetWithTTL, up to the WAL write: the record is a plain SET
SetWithTTLLog(c, key, value, ttl, outcome, n) ==
    /\ Running /\ clients[c].pc = "idle" /\ nOps < MaxOps
    /\ LogStep(c, "setttl", OpSet, key, value, ttl, outcome, n)
    /\ nOps' = nOps + 1
    /\ UNCHANGED <<store, now, syncMode, snapFile, walEntryCount, eState, cpc, cdata, opens,
                   cleanStop, restOfModel>>

\* Engine.SetWithTTL: e.store.SetWithTTL(key, value, ttl)
SetWithTTLApply(c) ==
    /\ Running /\ clients[c].pc = "apply" /\ clients[c].op = "setttl"
    /\ ApplyStep(c, StoreSetWithTTL(store, clients[c].key, clients[c].value, clients[c].ttl, now))
    /\ UNCHANGED <<now, walFile, walErr, syncMode, snapFile, walEntryCount, eState, cpc, cdata,
                   nOps, opens, cleanStop, restOfModel>>

SetWithTTLAck(c) ==
    /\ Running /\ clients[c].pc = "count" /\ clients[c].op = "setttl"
    /\ AckStep(c)
    /\ UNCHANGED <<store, now, walFile, walErr, syncMode, snapFile, eState, cpc, cdata, nOps,
                   opens, cleanStop, restOfModel>>

\* Engine.Delete: the existence check, e.store.Get(key)
DeleteCheck(c, key) ==
    /\ Running /\ clients[c].pc = "idle" /\ nOps < MaxOps
    /\ LET r == StoreGet(store, key, now)
       IN  /\ store' = r.data
           /\ clients' = [clients EXCEPT ![c] =
                  IF r.ok THEN [IdleClient EXCEPT !.op = "delete", !.key = key, !.pc = "log"]
                  ELSE IdleClient]
    /\ nOps' = nOps + 1
    /\ UNCHANGED <<now, walFile, walErr, syncMode, snapFile, walEntryCount, eState, cpc, cdata,
                   opens, cleanStop, restOfModel>>

\* Engine.Delete: the WAL write
DeleteLog(c, outcome, n) ==
    /\ Running /\ clients[c].pc = "log" /\ clients[c].op = "delete"
    /\ LogStep(c, "delete", OpDelete, clients[c].key, <<>>, 0, outcome, n)
    /\ UNCHANGED <<store, now, syncMode, snapFile, walEntryCount, eState, cpc, cdata, nOps,
                   opens, cleanStop, restOfModel>>

\* Engine.Delete: e.store.Delete(key)
DeleteApply(c) ==
    /\ Running /\ clients[c].pc = "apply" /\ clients[c].op = "delete"
    /\ ApplyStep(c, StoreDelete(store, clients[c].key).data)
    /\ UNCHANGED <<now, walFile, walErr, syncMode, snapFile, walEntryCount, eState, cpc, cdata,
                   nOps, opens, cleanStop, restOfModel>>

DeleteAck(c) ==
    /\ Running /\ clients[c].pc = "count" /\ clients[c].op = "delete"
    /\ AckStep(c)
    /\ UNCHANGED <<store, now, walFile, walErr, syncMode, snapFile, eState, cpc, cdata, nOps,
                   opens, cleanStop, restOfModel>>

\* Engine.Clear, up to the WAL write
ClearLog(c, outcome, n) ==
    /\ Running /\ clients[c].pc = "idle" /\ nOps < MaxOps
    /\ LogStep(c, "clear", OpClear, <<>>, <<>>, 0, outcome, n)
    /\ nOps' = nOps + 1
    /\ UNCHANGED <<store, now, syncMode, snapFile, walEntryCount, eState, cpc, cdata, opens,
                   cleanStop, restOfModel>>

\* Engine.Clear: e.store.Clear()
ClearApply(c) ==
    /\ Running /\ clients[c].pc = "apply" /\ clients[c].op = "clear"
    /\ ApplyStep(c, StoreClear)
    /\ UNCHANGED <<now, walFile, walErr, syncMode, snapFile, walEntryCount, eState, cpc, cdata,
                   nOps, opens, cleanStop, restOfModel>>

ClearAck(c) ==
    /\ Running /\ clients[c].pc = "count" /\ clients[c].op = "clear"
    /\ AckStep(c)
    /\ UNCHANGED <<store, now, walFile, walErr, syncMode, snapFile, eState, cpc, cdata, nOps,
                   opens, cleanStop, restOfModel>>

\* Engine.Get: the store's Get, which removes an expired entry.  The
\* connection keeps the mark of its last failed write, and the result
\* says whether the get came after one.
Get(c, key) ==
    /\ Running /\ clients[c].pc = "idle"
    /\ LET r == StoreGet(store, key, now)
       IN  /\ store' = r.data
           /\ sRes' = [op |-> "get", key |-> key, ok |-> r.ok, value |-> r.value, at |-> now,
                       had |-> key \in DOMAIN store,
                       expiry |-> IF key \in DOMAIN store THEN store[key].ExpiresAt ELSE 0,
                       afterFail |-> clients[c].walOk = "fail"]
    /\ UNCHANGED <<now, walFile, walErr, syncMode, snapFile, walEntryCount, eState, clients, cpc,
                   cdata, nOps, opens, cleanStop, sideVars>>

\* Engine.Compact: e.mu.Lock() and the copy of the keyspace by Range
CompactCopy ==
    /\ Running /\ cpc = "idle"
    /\ cdata' = StoreRange(store, now)
    /\ cpc' = "copied"
    /\ UNCHANGED <<store, now, walFile, walErr, syncMode, snapFile, walEntryCount, eState,
                   clients, nOps, opens, cleanStop, restOfModel>>

\* Engine.Compact: e.snapshotWriter.Create(data)
CompactSnapshot ==
    /\ Running /\ cpc = "copied"
    /\ snapFile' = FileOf(EncodeSnapshot(SnapshotOf(cdata, now)))
    /\ cpc' = "snapped"
    /\ UNCHANGED <<store, now, walFile, walErr, syncMode, walEntryCount, eState, clients, cdata,
                   nOps, opens, cleanStop, restOfModel>>

\* Engine.Compact: e.wal.Truncate(); its Flush returns the writer's error,
\* and Compact then returns (unlocking) with the WAL as it was
CompactTruncate ==
    /\ Running /\ cpc = "snapped"
    /\ IF walErr
       THEN /\ cpc' = "idle"
            /\ cdata' = EmptyData
            /\ UNCHANGED walFile
       ELSE /\ walFile' = FileOf(<<>>)
            /\ cpc' = "truncated"
            /\ UNCHANGED cdata
    /\ UNCHANGED <<store, now, walErr, syncMode, snapFile, walEntryCount, eState, clients, nOps,
                   opens, cleanStop, restOfModel>>

\* Engine.Compact: e.walEntryCount = 0 and the deferred e.mu.Unlock()
CompactReset ==
    /\ Running /\ cpc = "truncated"
    /\ walEntryCount' = 0
    /\ cpc' = "idle"
    /\ cdata' = EmptyData
    /\ UNCHANGED <<store, now, walFile, walErr, syncMode, snapFile, eState, clients, nOps, opens,
                   cleanStop, restOfModel>>

\* Engine.Close, called when no call is in progress: the WAL is flushed
\* and closed.  The keyspace of the stopped engine stays in store until the
\* next New replaces it; nothing reads it meanwhile.
Close ==
    /\ Running /\ AllIdle /\ cpc = "idle"
    /\ eState' = "closed"
    /\ cleanStop' = TRUE
    /\ UNCHANGED <<store, now, walFile, walErr, syncMode, snapFile, walEntryCount, clients,
                   cpc, cdata, nOps, opens, restOfModel>>

\* the process dies: every call in progress and a running compaction end
\* where they are, the files stay as written
Crash ==
    /\ Running
    /\ eState' = "crashed"
    /\ cleanStop' = AllIdle
    /\ clients' = [c \in Clients |-> IdleClient]
    /\ cpc' = "idle"
    /\ cdata' = EmptyData
    /\ UNCHANGED <<store, now, walFile, walErr, syncMode, snapFile, walEntryCount, nOps, opens,
                   restOfModel>>

\* engine.New on the data directory: wal.New creates the WAL file if it is
\* absent, recover loads the snapshot and replays the WAL; an error of
\* recover is returned instead of an engine
OpenFiles ==
    /\ eState \in {"closed", "crashed"} /\ opens < MaxOpens
    /\ LET file == IF walFile.exists THEN walFile ELSE FileOf(<<>>)
           r == recover(snapFile, file)
       IN  /\ walFile' = file
           /\ IF r.ok
              THEN /\ eState' = "running"
                   /\ store' = r.data
                   /\ walEntryCount' = r.count
              ELSE /\ eState' = "failed"
                   /\ store' = EmptyData
                   /\ walEntryCount' = 0
    /\ walErr' = FALSE
    /\ clients' = [c \in Clients |-> IdleClient]
    /\ opens' = opens + 1

\* engine.New with the options the model started with
Open ==
    /\ OpenFiles
    /\ UNCHANGED <<now, syncMode, snapFile, cpc, cdata, nOps, cleanStop, restOfModel>>

\* the engine with no I/O failure, no TTL and a clock that stands still
Next ==
    \/ Open
    \/ Close
    \/ Crash
    \/ \E c \in Clients, k \in Keys : SetLog(c, k, ValueOf(c), "ok", 0)
    \/ \E c \in Clients : SetApply(c)
    \/ \E c \in Clients : SetAck(c)
    \/ \E c \in Clients, k \in Keys : DeleteCheck(c, k)
    \/ \E c \in Clients : DeleteLog(c, "ok", 0)
    \/ \E c \in Clients : DeleteApply(c)
    \/ \E c \in Clients : DeleteAck(c)
    \/ \E c \in Clients : ClearLog(c, "ok", 0)
    \/ \E c \in Clients : ClearApply(c)
    \/ \E c \in Clients : ClearAck(c)
    \/ CompactCopy
    \/ CompactSnapshot
    \/ CompactTruncate
    \/ CompactReset

Init ==
    /\ EngineInit
    /\ syncMode = FALSE
    /\ sRes = NoResult
    /\ CodecIdle

Spec == Init /\ [][Next]_vars

\* C1: when the engine is opened again after a stop during which no call
\* was in progress, New succeeds and the keyspace is the keyspace the
\* acknowledged operations had produced before the stop.
AcknowledgedImpliesRecovered ==
    [][(eState \in {"closed", "crashed"} /\ eState' # eState /\ opens > 0 /\ cleanStop)
          => (eState' = "running" /\ ValuesOf(store') = ValuesOf(store))]_vars

\* C2: in a run without compaction, whenever no call is in progress the
\* replay of the WAL yields the live keyspace, a key written by two
\* connections included: the records are in the order of the updates.
WalOrderIsApplyOrder ==
    (Running /\ AllIdle /\ ~snapFile.exists /\ cpc = "idle") =>
        LET r == recover(NoFile, walFile)
        IN  r.ok /\ ValuesOf(r.data) = ValuesOf(store)

\* C3: whenever no call is in progress, the snapshot and the WAL on disk
\* reconstruct the keyspace of the acknowledged operations, wherever a
\* compaction is; and while a compaction is between its copy and its
\* truncation, the keyspace is the one it copied.
CompactionLosesNothing ==
    /\ (Running /\ AllIdle) =>
           LET r == recover(snapFile, walFile)
           IN  r.ok /\ ValuesOf(r.data) = ValuesOf(store)
    /\ (Running /\ cpc \in {"copied", "snapped"}) => cdata = ValuesOf(store)

(***************************************************************************)
(* The engine with a WAL whose writes can fail: every mutating call and    *)
(* gets, in either sync mode, on one opening of the engine.                *)
(***************************************************************************)
Outcomes == {"ok", "flush", "sync"}

\* how many bytes of a record a failing flush leaves in the file
TornCut == 5

\* the key the connections contend for
FaultKeys == {<<"a">>}

FaultInit ==
    /\ EngineInit
    /\ sRes = NoResult
    /\ CodecIdle

FaultNext ==
    \/ Open
    \/ \E c \in Clients, k \in FaultKeys, o \in Outcomes : SetLog(c, k, ValueOf(c), o, TornCut)
    \/ \E c \in Clients : SetApply(c)
    \/ \E c \in Clients : SetAck(c)
    \/ \E c \in Clients, k \in FaultKeys, o \in Outcomes :
           SetWithTTLLog(c, k, ValueOf(c), MaxTTL, o, TornCut)
    \/ \E c \in Clients : SetWithTTLApply(c)
    \/ \E c \in Clients : SetWithTTLAck(c)
    \/ \E c \in Clients, k \in FaultKeys : DeleteCheck(c, k)
    \/ \E c \in Clients, o \in Outcomes : DeleteLog(c, o, TornCut)
    \/ \E c \in Clients : DeleteApply(c)
    \/ \E c \in Clients : DeleteAck(c)
    \/ \E c \in Clients, o \in Outcomes : ClearLog(c, o, TornCut)
    \/ \E c \in Clients : ClearApply(c)
    \/ \E c \in Clients : ClearAck(c)
    \/ \E c \in Clients, k \in FaultKeys : Get(c, k)

SpecFault == FaultInit /\ [][FaultNext]_vars

\* C4: a call updates the keyspace only after its record is written and
\* flushed to the WAL file (and synced exactly in sync mode), the keyspace
\* changes by no other step, and the call is counted and returns only
\* after its update.
DurabilityOrdering ==
    /\ [](\A c \in Clients :
             clients[c].applied =>
                 clients[c].flushed /\ (clients[c].synced <=> syncMode))
    /\ [][(Running /\ eState' = eState /\ store' # store) =>
             \E c \in Clients :
                 /\ ~clients[c].applied /\ clients'[c].applied
                 /\ clients[c].flushed /\ (clients[c].synced <=> syncMode)]_vars
    /\ [][(Running /\ eState' = eState /\ walEntryCount' = walEntryCount + 1) =>
             \E c \in Clients :
                 clients[c].applied /\ clients[c].pc = "count" /\ clients'[c].pc = "idle"]_vars

\* a call in sync mode has updated the keyspace after its synced write
DurabilityOrderingSeen ==
    \E c \in Clients :
        /\ clients[c].pc = "count" /\ clients[c].applied /\ clients[c].synced
        /\ syncMode /\ walFile.bytes # <<>> /\ store # EmptyData

\* C7: a call whose WAL write fails returns at once: in that step the
\* keyspace and the entry count stay as they are, the connection is back
\* idle without having updated anything, only calls whose write succeeded
\* update the keyspace or the count, and a get after the failure is
\* answered from the keyspace.
WalFailureLeavesState ==
    /\ [][\A c \in Clients :
             (clients'[c].walOk = "fail" /\ clients[c].walOk # "fail") =>
                 /\ store' = store /\ walEntryCount' = walEntryCount
                 /\ clients'[c].pc = "idle" /\ ~clients'[c].applied
                 /\ eState' = "running"]_vars
    /\ [](\A c \in Clients : clients[c].walOk = "fail" => clients[c].pc \in {"idle", "log"})
    /\ [][(Running /\ eState' = eState /\ (store' # store \/ walEntryCount' > walEntryCount)) =>
             \E c \in Clients : clients[c].walOk = "ok" /\ clients'[c] # clients[c]]_vars
    /\ [][(sRes' # sRes /\ sRes'.op = "get" /\ sRes'.afterFail) =>
             /\ sRes'.ok = (sRes'.key \in DOMAIN store)
             /\ sRes'.ok => sRes'.value = store[sRes'.key].Value]_vars

\* a write failed, leaving a torn record behind, and the connection's next
\* get was answered with the value of an earlier acknowledged set
WalFailureSeen ==
    /\ walErr /\ sRes.op = "get" /\ sRes.afterFail /\ sRes.ok
    /\ \E c \in Clients : clients[c].walOk = "fail"

(***************************************************************************)
(* The engine on a data directory whose WAL file is damaged while the      *)
(* engine is down: one connection, compaction, and once, between a Close  *)
(* and the next New, a byte of the file overwritten, its tail cut off, or  *)
(* the file removed.                                                       *)
(***************************************************************************)
\* the bytes a damaged position can hold
CorruptBytes == {"X", NL, " "}

EngineDown == eState \in {"closed", "crashed"} /\ opens > 0

\* one byte of the WAL file is overwritten
CorruptByte(ch) ==
    /\ EngineDown /\ walFile.exists /\ ~damaged
    /\ \E i \in 1..Len(walFile.bytes) :
           /\ walFile.bytes[i] # ch
           /\ walFile' = FileOf([walFile.bytes EXCEPT ![i] = ch])
    /\ damaged' = TRUE
    /\ UNCHANGED <<store, now, walErr, syncMode, snapFile, walEntryCount, eState, clients, cpc,
                   cdata, nOps, opens, cleanStop, sRes, codecVars, snapVars, srvVars, moreVars>>

\* the WAL file loses its tail: n bytes stay
TearTail ==
    /\ EngineDown /\ walFile.exists /\ ~damaged
    /\ \E n \in 0..(Len(walFile.bytes) - 1) : walFile' = FileOf(SubSeq(walFile.bytes, 1, n))
    /\ damaged' = TRUE
    /\ UNCHANGED <<store, now, walErr, syncMode, snapFile, walEntryCount, eState, clients, cpc,
                   cdata, nOps, opens, cleanStop, sRes, codecVars, snapVars, srvVars, moreVars>>

\* the WAL file is removed
RemoveWal ==
    /\ EngineDown /\ walFile.exists /\ ~damaged
    /\ walFile' = NoFile
    /\ damaged' = TRUE
    /\ UNCHANGED <<store, now, walErr, syncMode, snapFile, walEntryCount, eState, clients, cpc,
                   cdata, nOps, opens, cleanStop, sRes, codecVars, snapVars, srvVars, moreVars>>

CorruptNext ==
    \/ Open
    \/ Close
    \/ \E k \in FaultKeys : SetLog(1, k, ValueOf(1), "ok", 0)
    \/ SetApply(1)
    \/ SetAck(1)
    \/ \E k \in FaultKeys : DeleteCheck(1, k)
    \/ DeleteLog(1, "ok", 0)
    \/ DeleteApply(1)
    \/ DeleteAck(1)
    \/ ClearLog(1, "ok", 0)
    \/ ClearApply(1)
    \/ ClearAck(1)
    \/ CompactCopy
    \/ CompactSnapshot
    \/ CompactTruncate
    \/ CompactReset
    \/ \E ch \in CorruptBytes : CorruptByte(ch)
    \/ TearTail
    \/ RemoveWal

SpecCorrupt == Init /\ [][CorruptNext]_vars

\* C6: when New runs on a WAL file of which some non-empty line does not
\* decode, New fails and no keyspace is served; when New succeeds it has
\* counted every non-empty line of the file, so none was passed over; and
\* on an empty or absent WAL file New succeeds with zero entries and the
\* snapshot's keyspace.
ReplayStopsAtBadRecord ==
    /\ [][(eState \in {"closed", "crashed"} /\ eState' # eState) =>
             LET lines == IF walFile.exists THEN ScanLines(walFile.bytes) ELSE <<>>
                 records == SelectSeq(lines, LAMBDA l : l # <<>>)
             IN  /\ (\E i \in 1..Len(records) : ~Decode(records[i]).ok) =>
                        (eState' = "failed" /\ store' = EmptyData)
                 /\ eState' = "running" => walEntryCount' = Len(records)
                 /\ (~walFile.exists \/ walFile.bytes = <<>>) =>
                        /\ eState' = "running" /\ walEntryCount' = 0
                        /\ store' = LoadSnapshot(Load(snapFile))]_vars
    /\ [][eState = "failed" => UNCHANGED <<store, eState, clients, walEntryCount>>]_vars

\* New has failed on a WAL file that was damaged after records were written
ReplayStoppedSeen ==
    eState = "failed" /\ damaged /\ walFile.bytes # <<>> /\ store = EmptyData

(***************************************************************************)
(* The store specification: the methods of one Store called directly, as   *)
(* internal/store/store_test.go does, while the clock advances.            *)
(***************************************************************************)
engineRest ==
    <<walFile, walErr, syncMode, snapFile, walEntryCount, eState, clients, cpc, cdata,
      nOps, opens, cleanStop>>

StoreInit ==
    /\ EngineInit
    /\ syncMode = FALSE
    /\ sRes = NoResult
    /\ CodecIdle

StSet(key, value) ==
    /\ store' = StoreSet(store, key, value)
    /\ sRes' = [op |-> "set", key |-> key]
    /\ UNCHANGED <<now, engineRest, sideVars>>

StSetWithTTL(key, value, ttl) ==
    /\ store' = StoreSetWithTTL(store, key, value, ttl, now)
    /\ sRes' = [op |-> "setttl", key |-> key]
    /\ UNCHANGED <<now, engineRest, sideVars>>

\* Get, with what the call found in the map before it
StGet(key) ==
    LET r == StoreGet(store, key, now)
    IN  /\ store' = r.data
        /\ sRes' = [op |-> "get", key |-> key, ok |-> r.ok, value |-> r.value, at |-> now,
                    had |-> key \in DOMAIN store,
                    expiry |-> IF key \in DOMAIN store THEN store[key].ExpiresAt ELSE 0,
                    afterFail |-> FALSE]
        /\ UNCHANGED <<now, engineRest, sideVars>>

\* Delete, with what the call found in the map before it
StDelete(key) ==
    LET r == StoreDelete(store, key)
    IN  /\ store' = r.data
        /\ sRes' = [op |-> "delete", key |-> key, ok |-> r.existed, at |-> now,
                    had |-> key \in DOMAIN store,
                    expiry |-> IF key \in DOMAIN store THEN store[key].ExpiresAt ELSE 0]
        /\ UNCHANGED <<now, engineRest, sideVars>>

StExpire(key, ttl) ==
    LET r == StoreExpire(store, key, ttl, now)
    IN  /\ store' = r.data
        /\ sRes' = [op |-> "expire", key |-> key, ok |-> r.ok]
        /\ UNCHANGED <<now, engineRest, sideVars>>

StPersist(key) ==
    LET r == StorePersist(store, key, now)
    IN  /\ store' = r.data
        /\ sRes' = [op |-> "persist", key |-> key, ok |-> r.ok]
        /\ UNCHANGED <<now, engineRest, sideVars>>

StDeleteExpired ==
    LET r == StoreDeleteExpired(store, now)
    IN  /\ store' = r.data
        /\ sRes' = [op |-> "sweep", n |-> r.deleted]
        /\ UNCHANGED <<now, engineRest, sideVars>>

StClear ==
    /\ store' = StoreClear
    /\ sRes' = [op |-> "clear"]
    /\ UNCHANGED <<now, engineRest, sideVars>>

\* time passes
Tick ==
    /\ now < MaxTime
    /\ now' = now + 1
    /\ UNCHANGED <<store, engineRest, sRes, sideVars>>

StoreNext ==
    \/ \E k \in Keys, v \in Values : StSet(k, v)
    \/ \E k \in Keys, v \in Values, ttl \in 1..MaxTTL : StSetWithTTL(k, v, ttl)
    \/ \E k \in Keys : StGet(k)
    \/ \E k \in Keys : StDelete(k)
    \/ \E k \in Keys, ttl \in 1..MaxTTL : StExpire(k, ttl)
    \/ \E k \in Keys : StPersist(k)
    \/ StDeleteExpired
    \/ StClear
    \/ Tick

SpecStore == StoreInit /\ [][StoreNext]_vars

\* C9: a get of a key at or after the key's expiry time answers absent
\* and leaves the key out of the map.
LazyExpiry ==
    (sRes.op = "get" /\ sRes.had /\ sRes.expiry # 0 /\ sRes.at >= sRes.expiry) =>
        (~sRes.ok /\ sRes.key \notin DOMAIN store)

\* C21: delete answers false for a key that is not in the map and for a
\* key whose expiry time has passed, and true for a key that has not
\* expired; the key is out of the map afterwards.
DeleteReturn ==
    sRes.op = "delete" =>
        /\ ~sRes.had => ~sRes.ok
        /\ (sRes.had /\ sRes.expiry # 0 /\ sRes.at > sRes.expiry) => ~sRes.ok
        /\ (sRes.had /\ (sRes.expiry = 0 \/ sRes.at < sRes.expiry)) => sRes.ok
        /\ sRes.key \notin DOMAIN store

(***************************************************************************)
(* The snapshot writer step by step: Writer.Create of                      *)
(* internal/snapshot/snapshot.go, with the failure of each step and a      *)
(* crash of the process between any two steps.                             *)
(***************************************************************************)
\* the keyspaces handed to Create
SnapDatas == UNION {[S -> Values] : S \in SUBSET Keys}

FileAt(path) == IF path = finalPath THEN snapFile ELSE tmpFile

PutFile(path, f) ==
    IF path = finalPath THEN snapFile' = f /\ UNCHANGED tmpFile
    ELSE tmpFile' = f /\ UNCHANGED snapFile

\* os.Rename(from, to)
RenameFile(from, to) ==
    IF from = to THEN UNCHANGED <<snapFile, tmpFile>>
    ELSE IF to = finalPath THEN snapFile' = FileAt(from) /\ tmpFile' = NoFile
    ELSE tmpFile' = FileAt(from) /\ snapFile' = NoFile

snapRest ==
    <<store, now, walFile, walErr, syncMode, walEntryCount, eState, clients, cpc, cdata,
      opens, cleanStop, sRes, codecVars, damaged, srvVars, moreVars>>

\* Create: the Snapshot is built and os.Create makes the temporary file
SwCreateTemp(data) ==
    /\ swPc = "idle" /\ nOps < MaxOps
    /\ swNew' = EncodeSnapshot(SnapshotOf(data, now))
    /\ swOld' = snapFile
    /\ PutFile(tempPath(now), FileOf(<<>>))
    /\ swPc' = "created"
    /\ nOps' = nOps + 1
    /\ UNCHANGED snapRest

\* encoder.Encode(snapshot) into the bufio.Writer: what does not fit the
\* buffer is written to the file, n tokens of the text
SwEncode ==
    /\ swPc = "created"
    /\ \E n \in 0..(Len(swNew) - 1) : PutFile(tempPath(now), FileOf(SubSeq(swNew, 1, n)))
    /\ swPc' = "encoded"
    /\ UNCHANGED <<snapRest, nOps, swOld, swNew>>

\* writer.Flush(): the rest of the text reaches the file
SwFlush ==
    /\ swPc = "encoded"
    /\ PutFile(tempPath(now), FileOf(swNew))
    /\ swPc' = "flushed"
    /\ UNCHANGED <<snapRest, nOps, swOld, swNew>>

\* file.Sync()
SwSync ==
    /\ swPc = "flushed"
    /\ swPc' = "synced"
    /\ UNCHANGED <<snapRest, nOps, swOld, swNew, snapFile, tmpFile>>

\* file.Close()
SwClose ==
    /\ swPc = "synced"
    /\ swPc' = "closed"
    /\ UNCHANGED <<snapRest, nOps, swOld, swNew, snapFile, tmpFile>>

\* os.Rename(tempPath, finalPath), and Create returns nil
SwRename ==
    /\ swPc = "closed"
    /\ RenameFile(tempPath(now), finalPath)
    /\ swPc' = "idle"
    /\ UNCHANGED <<snapRest, nOps, swOld, swNew>>

\* Encode, Flush, Sync or Rename returns an error: the temporary file is
\* removed and Create returns the error
SwFail ==
    /\ swPc \in {"created", "encoded", "flushed", "closed"}
    /\ PutFile(tempPath(now), NoFile)
    /\ swPc' = "idle"
    /\ UNCHANGED <<snapRest, nOps, swOld, swNew>>

\* the process dies inside Create: the files stay as they are
SwCrash ==
    /\ swPc # "idle"
    /\ swPc' = "idle"
    /\ UNCHANGED <<snapRest, nOps, swOld, swNew, snapFile, tmpFile>>

\* the clock moves on between two calls of Create
SwTick ==
    /\ swPc = "idle"
    /\ Tick

SnapNext ==
    \/ \E data \in SnapDatas : SwCreateTemp(data)
    \/ SwEncode
    \/ SwFlush
    \/ SwSync
    \/ SwClose
    \/ SwRename
    \/ SwFail
    \/ SwCrash
    \/ SwTick

SpecSnap == Init /\ [][SnapNext]_vars

\* C8: whatever step of Create has run, failed or been cut short by a
\* crash, kvlite.snapshot is absent, or is the file it was when Create
\* began, or is the whole text of the new snapshot; a file that exists
\* decodes, to the new snapshot when a second Create has replaced the
\* first.
AtomicSnapshot ==
    /\ \/ snapFile = NoFile
       \/ snapFile = swOld
       \/ swNew # <<>> /\ snapFile = FileOf(swNew)
    /\ snapFile.exists => DecodeSnapshot(snapFile.bytes).ok
    /\ (snapFile.exists /\ swOld.exists /\ snapFile # swOld) =>
           EncodeSnapshot(Load(snapFile).snap) = swNew

\* a crash has left a part of the second snapshot in the temporary file
\* while kvlite.snapshot still holds the first
AtomicSnapshotSeen ==
    /\ swPc = "idle" /\ tmpFile.exists
    /\ tmpFile.bytes # <<>> /\ tmpFile.bytes # swNew
    /\ snapFile.exists /\ snapFile = swOld /\ snapFile.bytes # swNew

(***************************************************************************)
(* The engine with TTLs over restarts: one connection sets keys with a     *)
(* TTL and gives TTLs to keys, the clock advances, the TTL manager sweeps, *)
(* compaction runs, and the engine is closed and opened again.             *)
(***************************************************************************)
\* Engine.Expire: the store's Expire, no WAL record
Expire(c, key, ttl) ==
    /\ Running /\ clients[c].pc = "idle" /\ nOps < MaxOps
    /\ store' = StoreExpire(store, key, ttl, now).data
    /\ nOps' = nOps + 1
    /\ UNCHANGED <<now, walFile, walErr, syncMode, snapFile, walEntryCount, eState, clients, cpc,
                   cdata, opens, cleanStop, restOfModel>>

\* the TTL manager's tick: checkAndDeleteExpired
Sweep ==
    /\ Running
    /\ store' = StoreDeleteExpired(store, now).data
    /\ UNCHANGED <<now, walFile, walErr, syncMode, snapFile, walEntryCount, eState, clients, cpc,
                   cdata, nOps, opens, cleanStop, restOfModel>>

\* the server's TTL command on a keyspace: -2 for no key, -1 for a key
\* without expiry, else the time left
TTLCommand(data, key, t) ==
    IF ~StoreGet(data, key, t).ok THEN 0 - 2
    ELSE IF StoreTTL(StoreGet(data, key, t).data, key, t) = 0 THEN 0 - 1
    ELSE StoreTTL(StoreGet(data, key, t).data, key, t)

TTLNext ==
    \/ Open
    \/ Close
    \/ \E k \in FaultKeys, ttl \in 1..MaxTTL : SetWithTTLLog(1, k, ValueOf(1), ttl, "ok", 0)
    \/ SetWithTTLApply(1)
    \/ SetWithTTLAck(1)
    \/ \E k \in FaultKeys, ttl \in 1..MaxTTL : Expire(1, k, ttl)
    \/ Sweep
    \/ Tick
    \/ CompactCopy
    \/ CompactSnapshot
    \/ CompactTruncate
    \/ CompactReset

SpecTTL == Init /\ [][TTLNext]_vars

\* C10: when the engine is opened again after a stop with no call in
\* progress, a key that had an expiry still ahead answers the TTL command
\* with the time left to that expiry, and a key whose expiry has passed is
\* absent.
TTLSurvivesRestart ==
    [][(EngineDown /\ eState' # eState /\ cleanStop) =>
          /\ eState' = "running"
          /\ \A k \in DOMAIN store :
                 /\ (store[k].ExpiresAt # 0 /\ now < store[k].ExpiresAt) =>
                        TTLCommand(store', k, now) = store[k].ExpiresAt - now
                 /\ (store[k].ExpiresAt # 0 /\ now > store[k].ExpiresAt) =>
                        TTLCommand(store', k, now) = 0 - 2]_vars

ReplyOK == <<"+", "O", "K">>
ErrNotFound == <<"-", "E", "R", "R", " ", "k">>
ErrNotInteger == <<"-", "E", "R", "R", " ", "i">>
ErrFailed == <<"-", "E", "R", "R", " ", "f">>

\* the rest of the state a server step leaves alone
srvRest == <<now, syncMode, snapFile, eState, cpc, cdata, opens, cleanStop, sRes, codecVars,
             damaged, snapVars, moreVars>>

CanStart(c) == Running /\ conns[c].cmd = "none" /\ clients[c].pc = "idle" /\ nOps < MaxOps

\* the reply goes out on the connection; began and at are the times the
\* command was read and answered
Answered(c, cmd, key, arg, reply) ==
    hist' = [hist EXCEPT ![c] =
                Append(@, [cmd |-> cmd, key |-> key, arg |-> arg, reply |-> reply,
                           began |-> IF conns[c].cmd = "none" THEN now ELSE conns[c].began,
                           at |-> now])]

\* the WAL write of the engine call a command makes, and the command's
\* error reply when it fails
SrvLog(c, conn, outcome, n) ==
    /\ IF conn.cmd = "DEL"
       THEN LogStep(c, "delete", OpDelete, conn.key, <<>>, 0, outcome, n)
       ELSE LogStep(c, "set", OpSet, conn.key, conn.val, 0, outcome, n)
    /\ IF clients'[c].walOk = "fail"
       THEN /\ conns' = [conns EXCEPT ![c] = IdleConn]
            /\ Answered(c, conn.cmd, conn.key, conn.arg, ErrFailed)
       ELSE /\ conns' = [conns EXCEPT ![c] = [conn EXCEPT !.stage = "engine"]]
            /\ UNCHANGED hist

\* GET key
SrvGet(c, key) ==
    /\ CanStart(c)
    /\ LET r == StoreGet(store, key, now)
       IN  /\ store' = r.data
           /\ Answered(c, "GET", key, <<>>, IF r.ok THEN r.value ELSE ErrNotFound)
    /\ nOps' = nOps + 1
    /\ UNCHANGED <<walFile, walErr, walEntryCount, clients, conns, srvRest>>

\* SET key value, up to the WAL write of engine.Set
SrvSet(c, key, value, outcome, n) ==
    /\ CanStart(c)
    /\ SrvLog(c, [IdleConn EXCEPT !.began = now, !.cmd = "SET", !.key = key, !.arg = value,
                                   !.val = value, !.reply = ReplyOK],
              outcome, n)
    /\ nOps' = nOps + 1
    /\ UNCHANGED <<store, walEntryCount, srvRest>>

\* MSET key value [key value ...], up to the WAL write of the first
\* engine.Set
SrvMset(c, pairs, outcome, n) ==
    /\ CanStart(c) /\ pairs # <<>>
    /\ SrvLog(c, [IdleConn EXCEPT !.began = now, !.cmd = "MSET", !.key = pairs[1][1],
                                   !.arg = pairs, !.val = pairs[1][2], !.rest = Tail(pairs),
                                   !.reply = ReplyOK],
              outcome, n)
    /\ nOps' = nOps + 1
    /\ UNCHANGED <<store, walEntryCount, srvRest>>

\* INCR key (delta 1) and DECR key (delta -1), up to the engine.Get and
\* the new value
SrvIncr(c, key, delta) ==
    /\ CanStart(c)
    /\ LET r == StoreGet(store, key, now)
           p == ParseInt(r.value)
           current == (IF r.ok THEN p.val ELSE 0) + delta
           cmd == IF delta = 1 THEN "INCR" ELSE "DECR"
       IN  /\ store' = r.data
           /\ IF r.ok /\ ~p.ok
              THEN /\ Answered(c, cmd, key, <<>>, ErrNotInteger)
                   /\ UNCHANGED conns
              ELSE /\ conns' = [conns EXCEPT ![c] =
                          [IdleConn EXCEPT !.began = now, !.cmd = cmd, !.stage = "write",
                                           !.key = key, !.val = FormatInt(current),
                                           !.reply = FormatInt(current)]]
                   /\ UNCHANGED hist
    /\ nOps' = nOps + 1
    /\ UNCHANGED <<walFile, walErr, walEntryCount, clients, srvRest>>

\* APPEND key value, up to the engine.Get and the new value
SrvAppend(c, key, value) ==
    /\ CanStart(c)
    /\ LET r == StoreGet(store, key, now)
           newVal == (IF r.ok THEN r.value ELSE <<>>) \o value
       IN  /\ store' = r.data
           /\ conns' = [conns EXCEPT ![c] =
                  [IdleConn EXCEPT !.began = now, !.cmd = "APPEND", !.stage = "write",
                                   !.key = key, !.arg = value, !.val = newVal, !.reply = Itoa(Len(newVal))]]
    /\ nOps' = nOps + 1
    /\ UNCHANGED <<walFile, walErr, walEntryCount, clients, hist, srvRest>>

\* DELETE key, up to the existence check of engine.Delete
SrvDel(c, key) ==
    /\ CanStart(c)
    /\ LET r == StoreGet(store, key, now)
       IN  /\ store' = r.data
           /\ IF r.ok
              THEN /\ conns' = [conns EXCEPT ![c] =
                          [IdleConn EXCEPT !.began = now, !.cmd = "DEL", !.stage = "write",
                                           !.key = key, !.reply = ReplyOK]]
                   /\ UNCHANGED hist
              ELSE /\ Answered(c, "DEL", key, <<>>, ErrNotFound)
                   /\ UNCHANGED conns
    /\ nOps' = nOps + 1
    /\ UNCHANGED <<walFile, walErr, walEntryCount, clients, srvRest>>

\* the WAL write of the engine call a command has come to
SrvWrite(c, outcome, n) ==
    /\ Running /\ conns[c].stage = "write"
    /\ SrvLog(c, conns[c], outcome, n)
    /\ UNCHANGED <<store, walEntryCount, nOps, srvRest>>

\* the store update of the engine call
SrvApply(c) ==
    /\ Running /\ conns[c].stage = "engine" /\ clients[c].pc = "apply"
    /\ ApplyStep(c, IF conns[c].cmd = "DEL" THEN StoreDelete(store, conns[c].key).data
                    ELSE IF conns[c].cmd = "SETEX"
                    THEN StoreSetWithTTL(store, conns[c].key, conns[c].val, conns[c].ttl, now)
                    ELSE StoreSet(store, conns[c].key, conns[c].val))
    /\ UNCHANGED <<walFile, walErr, walEntryCount, nOps, conns, hist, srvRest>>

\* the engine call counts its entry and returns; MSET goes on to its next
\* pair, any other command sends its reply
SrvAck(c) ==
    /\ Running /\ conns[c].stage = "engine" /\ clients[c].pc = "count"
    /\ AckStep(c)
    /\ IF conns[c].rest # <<>>
       THEN /\ conns' = [conns EXCEPT ![c] =
                   [@ EXCEPT !.stage = "write", !.key = conns[c].rest[1][1],
                             !.val = conns[c].rest[1][2], !.rest = Tail(conns[c].rest)]]
            /\ UNCHANGED hist
       ELSE /\ conns' = [conns EXCEPT ![c] = IdleConn]
            /\ Answered(c, conns[c].cmd, conns[c].key, conns[c].arg, conns[c].reply)
    /\ UNCHANGED <<store, walFile, walErr, nOps, srvRest>>

\* the commands two connections send on one key
SrvNext ==
    \/ Open
    \/ \E c \in Clients, k \in FaultKeys : SrvGet(c, k)
    \/ \E c \in Clients, k \in FaultKeys : SrvSet(c, k, <<"5">>, "ok", 0)
    \/ \E c \in Clients, k \in FaultKeys, d \in {1, 0 - 1} : SrvIncr(c, k, d)
    \/ \E c \in Clients, k \in FaultKeys : SrvAppend(c, k, <<"1">>)
    \/ \E c \in Clients, k \in FaultKeys : SrvDel(c, k)
    \/ \E c \in Clients : SrvWrite(c, "ok", 0)
    \/ \E c \in Clients : SrvApply(c)
    \/ \E c \in Clients : SrvAck(c)

SpecServer == Init /\ [][SrvNext]_vars

\* what a command answers and leaves behind when it runs alone on a
\* keyspace of plain values
SerialStep(kv, op) ==
    LET has == op.key \in DOMAIN kv
        put(k, v) == [x \in DOMAIN kv \cup {k} |-> IF x = k THEN v ELSE kv[x]]
        cur == IF has THEN ParseInt(kv[op.key]).val ELSE 0
        n == IF op.cmd = "INCR" THEN cur + 1 ELSE cur - 1
        appended == (IF has THEN kv[op.key] ELSE <<>>) \o op.arg
    IN  CASE op.cmd = "GET" -> [kv |-> kv, reply |-> IF has THEN kv[op.key] ELSE ErrNotFound]
          [] op.cmd = "SET" -> [kv |-> put(op.key, op.arg), reply |-> ReplyOK]
          [] op.cmd = "DEL" ->
                [kv |-> [x \in DOMAIN kv \ {op.key} |-> kv[x]],
                 reply |-> IF has THEN ReplyOK ELSE ErrNotFound]
          [] op.cmd \in {"INCR", "DECR"} ->
                IF has /\ ~ParseInt(kv[op.key]).ok THEN [kv |-> kv, reply |-> ErrNotInteger]
                ELSE [kv |-> put(op.key, FormatInt(n)), reply |-> FormatInt(n)]
          [] op.cmd = "APPEND" -> [kv |-> put(op.key, appended), reply |-> Itoa(Len(appended))]
          [] OTHER -> [kv |-> kv, reply |-> ErrFailed]

\* the replies of ops are those of running them one by one from kv
RECURSIVE SerialOK(_, _)
SerialOK(kv, ops) ==
    IF ops = <<>> THEN TRUE
    ELSE LET r == SerialStep(kv, Head(ops))
         IN  r.reply = Head(ops).reply /\ SerialOK(r.kv, Tail(ops))

\* the orders of the commands of two connections that keep each
\* connection's own order
RECURSIVE Merges(_, _)
Merges(s, t) ==
    IF s = <<>> THEN {t}
    ELSE IF t = <<>> THEN {s}
    ELSE {<<Head(s)>> \o m : m \in Merges(Tail(s), t)}
             \cup {<<Head(t)>> \o m : m \in Merges(s, Tail(t))}

\* C12: whenever no command is in progress, the commands answered so far
\* can be put in one order, each connection's own order kept, in which
\* every reply is the one the command gives when the commands run one
\* after the other from the empty keyspace.
Serializable ==
    (\A c \in Clients : conns[c].cmd = "none") =>
        \E m \in Merges(hist[1], hist[2]) : SerialOK(<<>>, m)

\* C13: when the only commands sent so far are N INCRs of one key, all of
\* them answered, their replies are the N distinct values 1..N and the key
\* holds N.
IncrAtomic ==
    LET all == hist[1] \o hist[2]
        N == Len(all)
    IN  (/\ \A c \in Clients : conns[c].cmd = "none"
         /\ N > 0
         /\ \A i \in 1..N : all[i].cmd = "INCR" /\ all[i].key = <<"a">>)
        => /\ {all[i].reply : i \in 1..N} = {FormatInt(n) : n \in 1..N}
           /\ <<"a">> \in DOMAIN store /\ store[<<"a">>].Value = FormatInt(N)

\* the pairs connection c sends in one MSET: every key, with a value of
\* its own
MsetPairs(c) == <<<<<<"a">>, ValueOf(c)>>, <<<<"b">>, ValueOf(c)>>>>

\* MSET and GET from two connections over a WAL whose flush can fail
MsetNext ==
    \/ Open
    \/ \E c \in Clients, o \in {"ok", "flush"} : SrvMset(c, MsetPairs(c), o, TornCut)
    \/ \E c \in Clients, k \in Keys : SrvGet(c, k)
    \/ \E c \in Clients, o \in {"ok", "flush"} : SrvWrite(c, o, TornCut)
    \/ \E c \in Clients : SrvApply(c)
    \/ \E c \in Clients : SrvAck(c)

SpecMset == Init /\ [][MsetNext]_vars

\* C14: MSET is all or nothing.  A connection that has read one key of an
\* MSET's pairs reads the other key too (nothing deletes here), and a
\* connection whose MSETs all answered an error has left none of its values
\* in the keyspace.
MsetAtomic ==
    /\ \A c \in Clients : \A i, j \in 1..Len(hist[c]) :
           (/\ i < j
            /\ hist[c][i].cmd = "GET" /\ hist[c][j].cmd = "GET"
            /\ hist[c][i].key # hist[c][j].key
            /\ hist[c][i].reply # ErrNotFound)
           => hist[c][j].reply # ErrNotFound
    /\ \A c \in Clients :
           (/\ conns[c].cmd = "none"
            /\ \A i \in 1..Len(hist[c]) : hist[c][i].cmd = "MSET" => hist[c][i].reply = ErrFailed)
           => \A k \in DOMAIN store : store[k].Value # ValueOf(c)

(***************************************************************************)
(* Keys and Scan of internal/store/store.go: glob matching and paging.     *)
(***************************************************************************)
MaxKeyLen == 2
MaxPatLen == 3
MaxStored == 2

\* globMatch; pIdx and sIdx count from 0 as in the source
RECURSIVE globMatch(_, _, _, _)
globMatch(pattern, str, pIdx, sIdx) ==
    LET pLen == Len(pattern)
        sLen == Len(str)
        \* for pIdx < pLen && pattern[pIdx] == '*' { pIdx++ }
        q == CHOOSE i \in pIdx..pLen :
                 /\ \A j \in pIdx..(i - 1) : pattern[j + 1] = "*"
                 /\ (i = pLen \/ pattern[i + 1] # "*")
    IN  IF pIdx = pLen /\ sIdx = sLen THEN TRUE
        ELSE IF pIdx = pLen THEN FALSE
        ELSE IF pattern[pIdx + 1] = "*"
        THEN IF q = pLen THEN TRUE
             ELSE \E i \in sIdx..sLen : globMatch(pattern, str, q, i)
        ELSE IF sIdx = sLen THEN \A i \in pIdx..(pLen - 1) : pattern[i + 1] = "*"
        ELSE IF pattern[pIdx + 1] = "?" \/ pattern[pIdx + 1] = str[sIdx + 1]
        THEN globMatch(pattern, str, pIdx + 1, sIdx + 1)
        ELSE FALSE

\* a matchPattern that has only its fast paths
matchPatternFastOnly(pattern, str) == pattern = <<"*">> \/ pattern = str

\* matchPattern
matchPattern(pattern, str) ==
    IF pattern = <<"*">> THEN TRUE
    ELSE IF pattern = str THEN TRUE
    ELSE globMatch(pattern, str, 0, 0)

\* (s *Store) Keys; the list comes in the map's iteration order, kept here
\* as the set of its elements
StoreKeys(data, pattern, t) ==
    {k \in DOMAIN data : ~IsExpired(data[k], t) /\ matchPattern(pattern, k)}

\* the orders in which `for key, entry := range s.data` can go through the
\* map: Go leaves the order unspecified and varies it from one loop to
\* the next
rangeOrders(data) ==
    {o \in [1..Cardinality(DOMAIN data) -> DOMAIN data] :
         \A i, j \in DOMAIN o : i # j => o[i] # o[j]}

\* (s *Store) Scan, with the order its range loop went through the map.
\* With a negative cursor the slice expression allKeys[start:end] panics:
\* fault, and nothing is returned
StoreScan(data, cursor, pattern, count, order, t) ==
    LET cnt == IF count <= 0 THEN 10 ELSE count
        allKeys == SelectSeq(order, LAMBDA k : ~IsExpired(data[k], t) /\ matchPattern(pattern, k))
        end == IF cursor + cnt > Len(allKeys) THEN Len(allKeys) ELSE cursor + cnt
        hasMore == cursor + cnt < Len(allKeys)
    IN  IF cursor >= Len(allKeys)
        THEN [next |-> 0, keys |-> <<>>, hasMore |-> FALSE, fault |-> FALSE]
        ELSE IF cursor < 0
        THEN [next |-> 0, keys |-> <<>>, hasMore |-> FALSE, fault |-> TRUE]
        ELSE [next |-> IF hasMore THEN end ELSE 0,
              keys |-> SubSeq(allKeys, cursor + 1, end),
              hasMore |-> hasMore, fault |-> FALSE]

\* the keys and the patterns of the glob specification
GlobKeys == UNION {[1..m -> {"a", "*"}] : m \in 1..MaxKeyLen}

Patterns == UNION {[1..m -> {"a", "*", "?"}] : m \in 0..MaxPatLen}

\* a key is stored, with a deadline (ttl > 0) or without
GlobLoad(key, ttl) ==
    /\ now = 1 /\ Cardinality(DOMAIN store) < MaxStored /\ key \notin DOMAIN store
    /\ IF ttl = 0 THEN StSet(key, <<"v">>) ELSE StSetWithTTL(key, <<"v">>, ttl)

StKeys(pattern) ==
    /\ sRes' = [op |-> "keys", pattern |-> pattern, keys |-> StoreKeys(store, pattern, now),
                at |-> now]
    /\ UNCHANGED <<store, now, engineRest, sideVars>>

GlobNext ==
    \/ \E k \in GlobKeys, ttl \in 0..MaxTTL : GlobLoad(k, ttl)
    \/ \E p \in Patterns : StKeys(p)
    \/ Tick

SpecGlob == StoreInit /\ [][GlobNext]_vars

\* the reference rules: '*' stands for any run of bytes, the empty one
\* included, '?' for exactly one byte, any other byte for itself
RECURSIVE RefMatch(_, _)
RefMatch(p, k) ==
    IF p = <<>> THEN k = <<>>
    ELSE IF Head(p) = "*"
    THEN RefMatch(Tail(p), k) \/ (k # <<>> /\ RefMatch(p, Tail(k)))
    ELSE /\ k # <<>>
         /\ Head(p) = "?" \/ Head(p) = Head(k)
         /\ RefMatch(Tail(p), Tail(k))

\* C16: the answer of keys(pattern) holds only stored keys, and holds a key
\* that has not expired exactly when the pattern matches the key under the
\* reference rules.
GlobMatching ==
    (sRes.op = "keys" /\ sRes.at = now) =>
        /\ sRes.keys \subseteq DOMAIN store
        /\ \A k \in DOMAIN store :
               (store[k].ExpiresAt = 0 \/ now < store[k].ExpiresAt)
               => (k \in sRes.keys <=> RefMatch(sRes.pattern, k))

\* C16: keys has answered a pattern with a '*' or '?' for which a stored key
\* with a deadline still ahead was taken and another stored key was left
\* out, and the pattern is one of the fast paths or none.
GlobMatchingSeen ==
    /\ sRes.op = "keys" /\ sRes.at = now /\ now > 1
    /\ \E i \in DOMAIN sRes.pattern : sRes.pattern[i] \in {"*", "?"}
    /\ sRes.pattern # <<"*">>
    /\ \E k \in sRes.keys : store[k].ExpiresAt > now
    /\ \E k \in DOMAIN store \ sRes.keys : store[k].ExpiresAt = 0

\* the patterns of the scan specification
ScanPatterns == {<<"*">>, <<"a">>, <<"?">>}

\* SCAN 0 [MATCH pattern] [COUNT count]: the first call of an iteration
ScanFirst(pattern, count) ==
    /\ \E order \in rangeOrders(store) :
           LET r == StoreScan(store, 0, pattern, count, order, now)
           IN  sRes' = [op |-> "scan", pattern |-> pattern, count |-> count, next |-> r.next,
                        batches |-> <<r.keys>>, at |-> now]
    /\ UNCHANGED <<store, now, engineRest, sideVars>>

\* the next call of the iteration, with the cursor the last call returned
ScanFollow ==
    /\ sRes.op = "scan" /\ sRes.next # 0
    /\ \E order \in rangeOrders(store) :
           LET r == StoreScan(store, sRes.next, sRes.pattern, sRes.count, order, now)
           IN  sRes' = [sRes EXCEPT !.next = r.next, !.batches = Append(@, r.keys)]
    /\ UNCHANGED <<store, now, engineRest, sideVars>>

\* a key is stored, with a deadline (ttl > 0) or without
ScanLoad(key, ttl) ==
    /\ now = 1 /\ key \notin DOMAIN store
    /\ IF ttl = 0 THEN StSet(key, <<"v">>) ELSE StSetWithTTL(key, <<"v">>, ttl)

ScanNext ==
    \/ \E k \in Keys, ttl \in 0..MaxTTL : ScanLoad(k, ttl)
    \/ \E p \in ScanPatterns, n \in 1..MaxStored : ScanFirst(p, n)
    \/ ScanFollow
    \/ Tick

SpecScan == StoreInit /\ [][ScanNext]_vars

\* C15: an iteration that has come back to cursor 0, with the keyspace and
\* the clock as they were when it began, has returned every stored key
\* that has not expired and matches the pattern, only stored keys that
\* match, and no key twice.
ScanComplete ==
    LET batches == sRes.batches
        at(i) == {<<i, j>> : j \in 1..Len(batches[i])}
        places == UNION {at(i) : i \in 1..Len(batches)}
        seen == {batches[p[1]][p[2]] : p \in places}
    IN  (sRes.op = "scan" /\ sRes.next = 0 /\ sRes.at = now) =>
            /\ \A k \in DOMAIN store :
                   ((store[k].ExpiresAt = 0 \/ now < store[k].ExpiresAt)
                        /\ RefMatch(sRes.pattern, k)) => k \in seen
            /\ \A k \in seen : k \in DOMAIN store /\ RefMatch(sRes.pattern, k)
            /\ \A p, q \in places : p # q => batches[p[1]][p[2]] # batches[q[1]][q[2]]

(***************************************************************************)
(* The expiry commands of the server: SETEX, EXPIRE, TTL and PERSIST, with *)
(* the clock counting in parts of a second.                                *)
(***************************************************************************)
\* time.Second, in ticks of the clock
Second == 2

\* SETEX key seconds value, up to the WAL write of engine.SetWithTTL
SrvSetex(c, key, seconds, value) ==
    /\ CanStart(c) /\ seconds > 0
    /\ SrvLog(c, [IdleConn EXCEPT !.began = now, !.cmd = "SETEX", !.key = key,
                                   !.arg = [seconds |-> seconds, value |-> value],
                                   !.val = value, !.ttl = seconds * Second,
                                   !.reply = ReplyOK],
              "ok", 0)
    /\ nOps' = nOps + 1
    /\ UNCHANGED <<store, walEntryCount, srvRest>>

\* EXPIRE key seconds
SrvExpire(c, key, seconds) ==
    /\ CanStart(c) /\ seconds > 0
    /\ LET r == StoreExpire(store, key, seconds * Second, now)
       IN  /\ store' = r.data
           /\ Answered(c, "EXPIRE", key, [seconds |-> seconds],
                       IF r.ok THEN <<"1">> ELSE <<"0">>)
    /\ nOps' = nOps + 1
    /\ UNCHANGED <<walFile, walErr, walEntryCount, clients, conns, srvRest>>

\* PERSIST key; the entry the command found is kept with the reply
SrvPersist(c, key) ==
    /\ CanStart(c)
    /\ LET r == StorePersist(store, key, now)
       IN  /\ store' = r.data
           /\ Answered(c, "PERSIST", key,
                       [had |-> key \in DOMAIN store,
                        exp |-> IF key \in DOMAIN store THEN store[key].ExpiresAt ELSE 0],
                       IF r.ok THEN <<"1">> ELSE <<"0">>)
    /\ nOps' = nOps + 1
    /\ UNCHANGED <<walFile, walErr, walEntryCount, clients, conns, srvRest>>

\* TTL key, the existence check: s.engine.Get(key), "-2" when it finds
\* nothing; the entry the check found is kept with the command
SrvTtl(c, key) ==
    /\ CanStart(c)
    /\ LET r == StoreGet(store, key, now)
           found == [checkAt |-> now, checkHad |-> key \in DOMAIN store,
                     checkExp |-> IF key \in DOMAIN store THEN store[key].ExpiresAt ELSE 0]
       IN  /\ store' = r.data
           /\ IF r.ok
              THEN /\ conns' = [conns EXCEPT ![c] =
                          [IdleConn EXCEPT !.began = now, !.cmd = "TTL", !.stage = "ttl",
                                           !.key = key, !.arg = found]]
                   /\ UNCHANGED hist
              ELSE /\ Answered(c, "TTL", key, found, <<"-", "2">>)
                   /\ UNCHANGED conns
    /\ nOps' = nOps + 1
    /\ UNCHANGED <<walFile, walErr, walEntryCount, clients, srvRest>>

\* TTL key, the lookup: s.engine.TTL(key), "-1" when it is 0, else the
\* whole seconds in it
SrvTtlLookup(c) ==
    /\ Running /\ conns[c].stage = "ttl"
    /\ LET key == conns[c].key
           ttl == StoreTTL(store, key, now)
           found == [checkAt |-> conns[c].arg.checkAt, checkHad |-> conns[c].arg.checkHad,
                     checkExp |-> conns[c].arg.checkExp,
                     lookAt |-> now, lookHad |-> key \in DOMAIN store,
                     lookExp |-> IF key \in DOMAIN store THEN store[key].ExpiresAt ELSE 0]
       IN  Answered(c, "TTL", key, found,
                    IF ttl = 0 THEN <<"-", "1">> ELSE FormatInt(ttl \div Second))
    /\ conns' = [conns EXCEPT ![c] = IdleConn]
    /\ UNCHANGED <<store, walFile, walErr, walEntryCount, clients, nOps, srvRest>>

\* SETEX, EXPIRE, DEL and TTL from two connections while the clock runs and
\* the TTL manager sweeps
ExpiryNext ==
    \/ Open
    \/ \E c \in Clients, k \in FaultKeys, n \in 1..MaxTTL : SrvSetex(c, k, n, <<"v">>)
    \/ \E c \in Clients, k \in FaultKeys : SrvExpire(c, k, MaxTTL)
    \/ \E c \in Clients, k \in FaultKeys : SrvDel(c, k)
    \/ \E c \in Clients, k \in FaultKeys : SrvTtl(c, k)
    \/ \E c \in Clients : SrvTtlLookup(c)
    \/ \E c \in Clients : SrvWrite(c, "ok", 0)
    \/ \E c \in Clients : SrvApply(c)
    \/ \E c \in Clients : SrvAck(c)
    \/ Sweep
    \/ Tick

SpecExpiry == Init /\ [][ExpiryNext]_vars

\* C17: on a connection that is alone, a TTL of a key answered less than a
\* second after the connection sent SETEX key n value, with no command in
\* between, answers one of 1..n.
TtlAfterSetex ==
    \A c \in Clients :
        (\A o \in Clients \ {c} : hist[o] = <<>> /\ conns[o].cmd = "none") =>
            \A i \in 1..(Len(hist[c]) - 1) :
                (/\ hist[c][i].cmd = "SETEX" /\ hist[c][i].reply = ReplyOK
                 /\ hist[c][i + 1].cmd = "TTL" /\ hist[c][i + 1].key = hist[c][i].key
                 /\ hist[c][i + 1].at - hist[c][i].began < Second)
                => hist[c][i + 1].reply \in {FormatInt(m) : m \in 1..hist[c][i].arg.seconds}

\* C18: a TTL command answers -2 only for a key that its existence check
\* found absent or past its deadline, -1 only for a key that was there
\* without a deadline at its check or at its lookup (nothing here takes a
\* deadline away in between), and otherwise the whole seconds left to the
\* deadline of the key its lookup found.
TtlReplies ==
    \A c \in Clients : \A i \in 1..Len(hist[c]) :
        LET e == hist[c][i]
            a == e.arg
        IN  e.cmd = "TTL" =>
                IF e.reply = <<"-", "2">>
                THEN ~a.checkHad \/ (a.checkExp # 0 /\ a.checkAt >= a.checkExp)
                ELSE IF e.reply = <<"-", "1">>
                THEN (a.checkHad /\ a.checkExp = 0) \/ (a.lookHad /\ a.lookExp = 0)
                ELSE /\ a.lookHad /\ a.lookExp > a.lookAt
                     /\ e.reply = FormatInt((a.lookExp - a.lookAt) \div Second)

\* SET, SETEX, PERSIST, TTL and GET from one connection while the clock
\* runs and the TTL manager sweeps
PersistNext ==
    \/ Open
    \/ \E k \in FaultKeys : SrvSet(1, k, <<"5">>, "ok", 0)
    \/ \E k \in FaultKeys, n \in 1..MaxTTL : SrvSetex(1, k, n, <<"v">>)
    \/ \E k \in FaultKeys : SrvPersist(1, k)
    \/ \E k \in FaultKeys : SrvTtl(1, k)
    \/ SrvTtlLookup(1)
    \/ \E k \in FaultKeys : SrvGet(1, k)
    \/ SrvApply(1)
    \/ SrvAck(1)
    \/ Sweep
    \/ Tick

SpecPersist == Init /\ [][PersistNext]_vars

\* C19: on a connection that is alone, the command after an answered SET of
\* a key answers -1 if it is a TTL of the key and the value, however late,
\* if it is a GET; and the same holds for the command after a PERSIST that
\* came before the deadline a SETEX had given the key.
SetAndPersistClearTtl ==
    \A c \in Clients :
        (\A o \in Clients \ {c} : hist[o] = <<>> /\ conns[o].cmd = "none") =>
            \A i \in 1..(Len(hist[c]) - 1) :
                LET e == hist[c][i]
                    f == hist[c][i + 1]
                    cleared ==
                        \/ e.cmd = "SET" /\ e.reply = ReplyOK
                        \/ /\ e.cmd = "PERSIST" /\ e.arg.had /\ e.at < e.arg.exp
                           /\ i > 1 /\ hist[c][i - 1].cmd = "SETEX" /\ hist[c][i - 1].key = e.key
                    value == IF e.cmd = "SET" THEN e.arg ELSE hist[c][i - 1].arg.value
                IN  (cleared /\ f.key = e.key) =>
                        /\ f.cmd = "TTL" => f.reply = <<"-", "1">>
                        /\ f.cmd = "GET" => f.reply = value

\* C19: a connection has sent SETEX, then PERSIST before the deadline, and
\* has read the value at or after the deadline the SETEX had set.
SetAndPersistClearTtlSeen ==
    \E c \in Clients :
        /\ \A o \in Clients \ {c} : hist[o] = <<>> /\ conns[o].cmd = "none"
        /\ Len(hist[c]) = 3
        /\ hist[c][1].cmd = "SETEX" /\ hist[c][2].cmd = "PERSIST" /\ hist[c][3].cmd = "GET"
        /\ hist[c][2].arg.had /\ hist[c][2].at < hist[c][2].arg.exp
        /\ hist[c][3].at > hist[c][2].arg.exp
        /\ hist[c][3].reply = <<"v">>

\* C20: PERSIST answers 1 for a key with a deadline still ahead, and 0 for
\* a key that is not there and for a key that is there without a deadline.
PersistReply ==
    \A c \in Clients : \A i \in 1..Len(hist[c]) :
        LET e == hist[c][i]
        IN  e.cmd = "PERSIST" =>
                /\ (e.arg.had /\ e.arg.exp > e.at) => e.reply = <<"1">>
                /\ ~e.arg.had => e.reply = <<"0">>
                /\ (e.arg.had /\ e.arg.exp = 0) => e.reply = <<"0">>

(***************************************************************************)
(* The connection layer of pkg/api: Start's accept loop with the           *)
(* connection cap, one handleConnection worker per connection, Shutdown,   *)
(* and the clients at the other end of the connections.                    *)
(***************************************************************************)
\* config.MaxConnections
MaxConnections == 1

\* how many lines a client writes on one connection
MaxLines == 2

Welcome == <<"+", "O", "K", " ", "k", "v", "l", "i", "t", "e", " ", "r", "e", "a", "d", "y">>

Goodbye == <<"+", "O", "K", " ", "g", "o", "o", "d", "b", "y", "e">>

Pong == <<"+", "P", "O", "N", "G">>

ErrLimit == <<"-", "E", "R", "R", " ", "c", "o", "n", "n", "e", "c", "t", "i", "o", "n", " ", "l", "i", "m", "i", "t", " ", "r", "e", "a", "c", "h", "e", "d">>

ErrEmpty == <<"-", "E", "R", "R", " ", "e", "m", "p", "t", "y", " ", "c", "o", "m", "m", "a", "n", "d">>

ErrUnknown == <<"-", "E", "R", "R", " ", "u", "n", "k", "n", "o", "w", "n", " ", "c", "o", "m", "m", "a", "n", "d", " ">>

\* the lines clients write: a blank one, PING and quit
PingLine == <<"P", "I", "N", "G">>

QuitLine == <<"q", "u", "i", "t">>

ConnLines == {<<" ">>, PingLine, QuitLine}

\* strings.HasPrefix
HasPrefix(s, prefix) == Len(s) >= Len(prefix) /\ SubSeq(s, 1, Len(prefix)) = prefix

\* strings.ToUpper, on the letters the model's lines hold
ToUpper(s) ==
    LET lower == <<"g", "i", "n", "p", "q", "t", "u">>
        upper == <<"G", "I", "N", "P", "Q", "T", "U">>
        up(ch) == IF \E i \in 1..Len(lower) : lower[i] = ch
                  THEN upper[CHOOSE i \in 1..Len(lower) : lower[i] = ch]
                  ELSE ch
    IN  [i \in 1..Len(s) |-> up(s[i])]

\* strings.Fields(line)[0], <<>> when the line has no field
FirstField(line) ==
    LET t == TrimLeft(line)
        n == CHOOSE i \in 0..Len(t) :
                 /\ \A j \in 1..i : ~IsSpace(t[j])
                 /\ (i = Len(t) \/ IsSpace(t[i + 1]))
    IN  SubSeq(t, 1, n)

\* the worker answers every line, blank ones too
IsBlankNever(line) == FALSE

\* strings.TrimSpace(line) == ""
IsBlank(line) == TrimSpace(line) = <<>>

\* processCommand, for the commands that touch nothing: PING, QUIT, and a
\* command it does not know
ConnCommand(line) ==
    LET cmd == ToUpper(FirstField(line))
    IN  IF FirstField(line) = <<>> THEN ErrEmpty
        ELSE IF cmd = ToUpper(PingLine) THEN Pong
        ELSE IF cmd = ToUpper(QuitLine) THEN Goodbye
        ELSE ErrUnknown \o <<"'">> \o cmd \o <<"'">>

connRest ==
    <<engineVars, sRes, codecVars, damaged, snapVars, srvVars, pool, sched, lk, bg>>

\* a client dials: the connection waits in the listener's backlog
Connect(s) ==
    /\ socks[s].state = "none" /\ srv.listener = "open"
    /\ socks' = [socks EXCEPT ![s] = [@ EXCEPT !.state = "pending", !.clientOpen = TRUE,
                                                !.serverOpen = TRUE]]
    /\ UNCHANGED <<srv, connRest>>

\* a client writes a line on its connection
Send(s, line) ==
    /\ socks[s].state \in {"pending", "accepted"}
    /\ socks[s].clientOpen /\ socks[s].serverOpen
    /\ Len(socks[s].sent) < MaxLines
    /\ socks' = [socks EXCEPT ![s] = [@ EXCEPT !.sent = Append(@, line),
                                                !.input = Append(@, line)]]
    /\ UNCHANGED <<srv, connRest>>

\* a client closes its end
Hangup(s) ==
    /\ socks[s].state \in {"pending", "accepted", "rejected"} /\ socks[s].clientOpen
    /\ socks' = [socks EXCEPT ![s].clientOpen = FALSE]
    /\ UNCHANGED <<srv, connRest>>

\* Start: net.Listen, s.listener = ln
StartListen ==
    /\ srv.startPc = "listen"
    /\ srv' = [srv EXCEPT !.listener = "open", !.startPc = "select"]
    /\ UNCHANGED <<socks, connRest>>

\* Start: select { case <-s.shutdownChan: return nil; default: }
StartSelect ==
    /\ srv.startPc = "select"
    /\ srv' = [srv EXCEPT !.startPc = IF srv.shutdown THEN "returned" ELSE "accept"]
    /\ UNCHANGED <<socks, connRest>>

\* Start: ln.Accept() returns a connection
StartAccept ==
    /\ srv.startPc = "accept" /\ srv.listener = "open"
    /\ \E s \in Sockets :
           /\ socks[s].state = "pending"
           /\ socks' = [socks EXCEPT ![s].state = "accepted"]
           /\ srv' = [srv EXCEPT !.startPc = "limit", !.cur = s]
    /\ UNCHANGED connRest

\* Start: ln.Accept() returns an error; it returns if the shutdown channel
\* is closed and goes round the loop otherwise
StartAcceptError ==
    /\ srv.startPc = "accept" /\ srv.listener = "closed"
    /\ srv' = [srv EXCEPT !.startPc = IF srv.shutdown THEN "returned" ELSE "select"]
    /\ UNCHANGED <<socks, connRest>>

\* a Start that lets every connection in
StartLimitOff ==
    /\ srv.startPc = "limit"
    /\ socks' = [socks EXCEPT ![srv.cur].loaded = srv.activeConns]
    /\ srv' = [srv EXCEPT !.startPc = "spawn"]
    /\ UNCHANGED connRest

\* Start: the connection limit check; over the limit the connection gets
\* the error line and is closed
StartLimit ==
    /\ srv.startPc = "limit"
    /\ IF MaxConnections > 0 /\ srv.activeConns >= MaxConnections
       THEN /\ socks' = [socks EXCEPT ![srv.cur] =
                   [@ EXCEPT !.state = "rejected", !.serverOpen = FALSE,
                             !.output = Append(@, ErrLimit), !.loaded = srv.activeConns]]
            /\ srv' = [srv EXCEPT !.startPc = "select", !.cur = 0]
       ELSE /\ socks' = [socks EXCEPT ![srv.cur].loaded = srv.activeConns]
            /\ srv' = [srv EXCEPT !.startPc = "spawn"]
    /\ UNCHANGED connRest

\* Start: s.wg.Add(1); atomic.AddInt32(&s.activeConns, 1); go s.handleConnection(conn)
StartSpawn ==
    /\ srv.startPc = "spawn"
    /\ srv' = [srv EXCEPT !.wg = @ + 1, !.activeConns = @ + 1, !.startPc = "select", !.cur = 0]
    /\ socks' = [socks EXCEPT ![srv.cur].wpc = "welcome"]
    /\ UNCHANGED connRest

\* handleConnection: the welcome message, written and flushed
WorkerWelcome(s) ==
    /\ socks[s].wpc = "welcome"
    /\ socks' = [socks EXCEPT ![s] = [@ EXCEPT !.wpc = "read", !.output = Append(@, Welcome)]]
    /\ UNCHANGED <<srv, connRest>>

\* handleConnection: scanner.Scan() returns a line; a blank one is skipped
WorkerRead(s) ==
    /\ socks[s].wpc = "read" /\ socks[s].input # <<>>
    /\ socks' = [socks EXCEPT ![s] =
           IF IsBlank(Head(socks[s].input))
           THEN [@ EXCEPT !.input = Tail(@)]
           ELSE [@ EXCEPT !.input = Tail(@), !.wpc = "exec", !.line = Head(socks[s].input)]]
    /\ UNCHANGED <<srv, connRest>>

\* handleConnection: scanner.Scan() returns false, the client has closed
\* its end and nothing is left to read
WorkerEOF(s) ==
    /\ socks[s].wpc = "read" /\ socks[s].input = <<>> /\ ~socks[s].clientOpen
    /\ socks' = [socks EXCEPT ![s].wpc = "defer"]
    /\ UNCHANGED <<srv, connRest>>

\* handleConnection: processCommand, the response written and flushed, and
\* the break after a response that begins with "+OK goodbye"
WorkerExec(s) ==
    /\ socks[s].wpc = "exec"
    /\ LET response == ConnCommand(socks[s].line)
       IN  socks' = [socks EXCEPT ![s] =
               [@ EXCEPT !.output = Append(@, response), !.line = <<>>,
                         !.wpc = IF HasPrefix(response, Goodbye) THEN "defer" ELSE "read"]]
    /\ UNCHANGED <<srv, connRest>>

\* handleConnection's deferred function: conn.Close()
WorkerClose(s) ==
    /\ socks[s].wpc = "defer"
    /\ socks' = [socks EXCEPT ![s] = [@ EXCEPT !.wpc = "release", !.serverOpen = FALSE]]
    /\ UNCHANGED <<srv, connRest>>

\* handleConnection's deferred function: atomic.AddInt32(&s.activeConns, -1); s.wg.Done()
WorkerRelease(s) ==
    /\ socks[s].wpc = "release"
    /\ socks' = [socks EXCEPT ![s].wpc = "done"]
    /\ srv' = [srv EXCEPT !.activeConns = @ - 1, !.wg = @ - 1]
    /\ UNCHANGED connRest

\* Shutdown: close(s.shutdownChan)
ShutdownSignal ==
    /\ srv.shutdownPc = "idle"
    /\ srv' = [srv EXCEPT !.shutdown = TRUE, !.shutdownPc = "signalled"]
    /\ UNCHANGED <<socks, connRest>>

\* Shutdown: s.listener.Close() when there is a listener; the connections
\* still in its backlog are refused
ShutdownListener ==
    /\ srv.shutdownPc = "signalled"
    /\ srv' = [srv EXCEPT !.shutdownPc = "waiting",
                          !.listener = IF @ = "open" THEN "closed" ELSE @]
    /\ socks' = [s \in Sockets |->
                    IF srv.listener = "open" /\ socks[s].state = "pending"
                    THEN [socks[s] EXCEPT !.state = "refused", !.serverOpen = FALSE]
                    ELSE socks[s]]
    /\ UNCHANGED connRest

\* Shutdown: s.wg.Wait() returns
ShutdownWait ==
    /\ srv.shutdownPc = "waiting" /\ srv.wg = 0
    /\ srv' = [srv EXCEPT !.shutdownPc = "returned"]
    /\ UNCHANGED <<socks, connRest>>

\* what the server does by itself
ServerStep ==
    \/ StartListen
    \/ StartSelect
    \/ StartAccept
    \/ StartAcceptError
    \/ StartLimit
    \/ StartSpawn
    \/ \E s \in Sockets : WorkerWelcome(s)
    \/ \E s \in Sockets : WorkerRead(s)
    \/ \E s \in Sockets : WorkerEOF(s)
    \/ \E s \in Sockets : WorkerExec(s)
    \/ \E s \in Sockets : WorkerClose(s)
    \/ \E s \in Sockets : WorkerRelease(s)
    \/ ShutdownListener
    \/ ShutdownWait

ConnNext ==
    \/ \E s \in Sockets : Connect(s)
    \/ \E s \in Sockets, line \in ConnLines : Send(s, line)
    \/ \E s \in Sockets : Hangup(s)
    \/ StartListen
    \/ StartSelect
    \/ StartAccept
    \/ StartAcceptError
    \/ StartLimit
    \/ StartSpawn
    \/ \E s \in Sockets : WorkerWelcome(s)
    \/ \E s \in Sockets : WorkerRead(s)
    \/ \E s \in Sockets : WorkerEOF(s)
    \/ \E s \in Sockets : WorkerExec(s)
    \/ \E s \in Sockets : WorkerClose(s)
    \/ \E s \in Sockets : WorkerRelease(s)
    \/ ShutdownSignal
    \/ ShutdownListener
    \/ ShutdownWait

SpecConn == Init /\ [][ConnNext]_vars

\* the connections whose worker has started and has not yet given its
\* count back
Working == {s \in Sockets : socks[s].wpc \in {"welcome", "read", "exec", "defer", "release"}}

\* C22: with a connection limit set, the active-connection counter is the
\* number of workers, never negative and never above the limit; a
\* connection is rejected exactly when Start read a counter at the limit
\* for it, and a rejected connection has got the error line and nothing
\* else, is closed, has no worker, and none of its lines was read.
ConnectionCap ==
    MaxConnections > 0 =>
        /\ srv.activeConns \in 0..MaxConnections
        /\ srv.activeConns = Cardinality(Working)
        /\ \A s \in Sockets :
               (socks[s].state \in {"accepted", "rejected"}
                    /\ ~(srv.startPc = "limit" /\ srv.cur = s))
               => (socks[s].state = "rejected" <=> socks[s].loaded >= MaxConnections)
        /\ \A s \in Sockets :
               socks[s].state = "rejected" =>
                   /\ socks[s].output = <<ErrLimit>>
                   /\ socks[s].wpc = "none" /\ ~socks[s].serverOpen
                   /\ socks[s].input = socks[s].sent

\* C22: a connection with lines sent on it has been rejected while
\* another one's worker holds the only place.
ConnectionCapSeen ==
    \E s, t \in Sockets :
        /\ socks[s].state = "rejected" /\ socks[s].sent # <<>>
        /\ socks[t].wpc = "read" /\ srv.activeConns = MaxConnections

\* the lines of a connection the worker has taken that are not blank
TakenLines(s) ==
    SelectSeq(SubSeq(socks[s].sent, 1, Len(socks[s].sent) - Len(socks[s].input)),
              LAMBDA line : TrimSpace(line) # <<>>)

SpecConnLive == Init /\ [][ConnNext]_vars /\ WF_vars(ServerStep)

\* C23: a Shutdown that has been invoked returns.
ShutdownReturns == (srv.shutdownPc = "signalled") ~> (srv.shutdownPc = "returned")

(***************************************************************************)
(* The engine after Close.  Engine has no state field: Close stops the     *)
(* TTL manager and the compaction loop and closes the WAL, and every       *)
(* method stays callable on the handle.  The calls below are made on an    *)
(* engine whose Close has returned, one at a time.                         *)
(***************************************************************************)
\* an engine was opened and its Close has returned
Closed == eState = "closed" /\ opens > 0

\* what a call on the closed engine returned and whether it changed the
\* keyspace or a file
ClosedResult(call, rejected, data, wal, snap) ==
    [op |-> "closed", call |-> call, rejected |-> rejected,
     changed |-> (data # store \/ wal # walFile \/ snap # snapFile)]

\* (w *WAL) Write on the closed file: the record goes to the buffer and
\* Flush fails in file.Write (or the writer already holds its error)
ClosedWALWrite(record) == WALWrite(walFile, walErr, syncMode, record, "flush", 0)

\* Engine.Get: e.store.Get(key), with no look at the WAL.  An answer of
\* not found is counted as a rejection.
ClosedGet(key) ==
    /\ Closed
    /\ LET r == StoreGet(store, key, now)
       IN  /\ store' = r.data
           /\ sRes' = ClosedResult("get", ~r.ok, r.data, walFile, snapFile)
    /\ UNCHANGED <<now, walFile, walErr, syncMode, snapFile, walEntryCount, eState, clients, cpc,
                   cdata, nOps, opens, cleanStop, sideVars>>

\* Engine.Len: e.store.Len().  An answer of 0 is counted as a rejection.
ClosedLen ==
    /\ Closed
    /\ sRes' = [ClosedResult("len", FALSE, store, walFile, snapFile)
                    EXCEPT !.rejected = StoreLen(store, now) = 0]
    /\ UNCHANGED <<engineVars, sideVars>>

\* Engine.Set: the WAL write fails and Set returns its error
ClosedSet(key, value) ==
    /\ Closed
    /\ LET w == ClosedWALWrite(NewRecord(OpSet, key, value, now))
           data == IF w.ok THEN StoreSet(store, key, value) ELSE store
       IN  /\ walFile' = w.file
           /\ walErr' = w.err
           /\ store' = data
           /\ walEntryCount' = IF w.ok THEN walEntryCount + 1 ELSE walEntryCount
           /\ sRes' = ClosedResult("set", ~w.ok, data, w.file, snapFile)
    /\ UNCHANGED <<now, syncMode, snapFile, eState, clients, cpc, cdata, nOps, opens, cleanStop,
                   sideVars>>

\* Engine.Delete: false for an absent key, else the WAL write fails
ClosedDelete(key) ==
    /\ Closed
    /\ LET g == StoreGet(store, key, now)
           w == ClosedWALWrite(NewRecord(OpDelete, key, <<>>, now))
           data == IF g.ok /\ w.ok THEN StoreDelete(g.data, key).data ELSE g.data
       IN  /\ store' = data
           /\ walFile' = IF g.ok THEN w.file ELSE walFile
           /\ walErr' = IF g.ok THEN w.err ELSE walErr
           /\ walEntryCount' = IF g.ok /\ w.ok THEN walEntryCount + 1 ELSE walEntryCount
           /\ sRes' = ClosedResult("delete", ~(g.ok /\ w.ok), data,
                                   IF g.ok THEN w.file ELSE walFile, snapFile)
    /\ UNCHANGED <<now, syncMode, snapFile, eState, clients, cpc, cdata, nOps, opens, cleanStop,
                   sideVars>>

\* Engine.Clear: the WAL write fails and Clear returns its error
ClosedClear ==
    /\ Closed
    /\ LET w == ClosedWALWrite(NewRecord(OpClear, <<>>, <<>>, now))
           data == IF w.ok THEN StoreClear ELSE store
       IN  /\ walFile' = w.file
           /\ walErr' = w.err
           /\ store' = data
           /\ walEntryCount' = IF w.ok THEN walEntryCount + 1 ELSE walEntryCount
           /\ sRes' = ClosedResult("clear", ~w.ok, data, w.file, snapFile)
    /\ UNCHANGED <<now, syncMode, snapFile, eState, clients, cpc, cdata, nOps, opens, cleanStop,
                   sideVars>>

\* Engine.Compact: Range and snapshotWriter.Create do not touch the WAL and
\* succeed; wal.Truncate then fails (Flush returns the writer's error, or
\* file.Close fails on the closed file) and Compact returns that error
ClosedCompact ==
    /\ Closed /\ cpc = "idle"
    /\ LET snap == FileOf(EncodeSnapshot(SnapshotOf(StoreRange(store, now), now)))
       IN  /\ snapFile' = snap
           /\ sRes' = ClosedResult("compact", TRUE, store, walFile, snap)
    /\ UNCHANGED <<store, now, walFile, walErr, syncMode, walEntryCount, eState, clients, cpc,
                   cdata, nOps, opens, cleanStop, sideVars>>

ClosedNext ==
    \/ Open
    \/ Close
    \/ \E c \in Clients, k \in Keys : SetLog(c, k, ValueOf(c), "ok", 0)
    \/ \E c \in Clients : SetApply(c)
    \/ \E c \in Clients : SetAck(c)
    \/ \E k \in Keys : ClosedGet(k)
    \/ ClosedLen
    \/ \E c \in Clients, k \in Keys : ClosedSet(k, ValueOf(c))
    \/ \E k \in Keys : ClosedDelete(k)
    \/ ClosedClear
    \/ ClosedCompact

SpecClosed == Init /\ [][ClosedNext]_vars

\* C25: once Close has returned, every call on the engine (get, len, set,
\* delete, clear, compact) is rejected and changes neither the keyspace nor
\* a file.
ClosedIsFinal ==
    sRes.op = "closed" => (sRes.rejected /\ ~sRes.changed)

(***************************************************************************)
(* The client's connection pool: NewPool, Get, Put and Close of Pool, each *)
(* under the pool's mutex from its first line to its return, so each is    *)
(* one step.  The server may close a connection at any time, and a dial    *)
(* may fail.                                                               *)
(***************************************************************************)
MaxIdle == 2
MaxActive == 2

\* connections the pool dials in one run
MaxDials == 3

poolRest ==
    <<engineVars, codecVars, damaged, snapVars, srvVars, srv, socks, sched, lk, bg>>

\* the connections a caller holds
CheckedOut(p) == {c \in 1..Len(p.cs) : p.cs[c] = "out"}

\* NewPool: MaxIdle <= 0 becomes 5; MaxActive 0 means no limit
PoolNew(maxIdle, maxActive) ==
    /\ ~pool.made
    /\ pool' = [NoPool EXCEPT !.made = TRUE,
                              !.maxIdle = IF maxIdle <= 0 THEN 5 ELSE maxIdle,
                              !.maxActive = maxActive]
    /\ sRes' = [op |-> "new"]
    /\ UNCHANGED poolRest

\* Get: the select on p.conns.  An idle connection that passes isAlive is
\* handed out; a dead one is closed and leaves the count
TakeIdle(p) ==
    IF p.conns = <<>> THEN [p |-> p, got |-> 0]
    ELSE LET c == Head(p.conns)
         IN  IF p.alive[c]
             THEN [p |-> [p EXCEPT !.conns = Tail(@), !.cs[c] = "out"], got |-> c]
             ELSE [p |-> [p EXCEPT !.conns = Tail(@), !.cs[c] = "closed", !.active = @ - 1],
                   got |-> 0]

\* a Get that never finds the pool at its limit
ExhaustedNever(p) == FALSE

\* Get: p.maxActive > 0 && p.active >= p.maxActive
Exhausted(p) == p.maxActive > 0 /\ p.active >= p.maxActive

\* (p *Pool) Get: the pool afterwards, the error and the connection
\* returned; dialOk says whether p.dial() succeeds
GetResult(p, dialOk) ==
    IF p.closed THEN [p |-> p, err |-> "closed", conn |-> 0]
    ELSE LET t == TakeIdle(p)
         IN  IF t.got # 0 THEN [p |-> t.p, err |-> "none", conn |-> t.got]
             ELSE IF Exhausted(t.p) THEN [p |-> t.p, err |-> "exhausted", conn |-> 0]
             ELSE IF ~dialOk THEN [p |-> t.p, err |-> "dial", conn |-> 0]
             ELSE [p |-> [t.p EXCEPT !.cs = Append(@, "out"), !.alive = Append(@, TRUE),
                                     !.active = @ + 1],
                   err |-> "none", conn |-> Len(t.p.cs) + 1]

\* the Get is the first call after a Put made with the pool at its limit
PoolGet(dialOk) ==
    /\ pool.made
    /\ LET r == GetResult(pool, dialOk)
       IN  /\ Len(r.p.cs) <= MaxDials
           /\ pool' = r.p
           /\ sRes' = [op |-> "get", err |-> r.err, conn |-> r.conn, before |-> pool,
                       after |-> r.p, dialOk |-> dialOk, afterPut |-> (sRes.op = "put" /\ sRes.atCap)]
    /\ UNCHANGED poolRest

\* a Put on a full idle set that leaves the count as it is
PutFullKeepsCount(p, c) == [p EXCEPT !.cs[c] = "closed"]

\* Put, the default branch of its select: conn.close(); p.active--
PutFull(p, c) == [p EXCEPT !.cs[c] = "closed", !.active = @ - 1]

\* (p *Pool) Put of a connection the caller holds
PutResult(p, c) ==
    IF p.closed THEN [p EXCEPT !.cs[c] = "closed"]
    ELSE IF Len(p.conns) < p.maxIdle
    THEN [p EXCEPT !.conns = Append(@, c), !.cs[c] = "idle"]
    ELSE PutFull(p, c)

PoolPut(c) ==
    /\ pool.made /\ c \in CheckedOut(pool)
    /\ pool' = PutResult(pool, c)
    /\ sRes' = [op |-> "put", conn |-> c, before |-> pool, after |-> PutResult(pool, c),
                atCap |-> (~pool.closed /\ pool.maxActive > 0
                           /\ pool.active = pool.maxActive)]
    /\ UNCHANGED poolRest

\* (p *Pool) Close: a second Close does nothing; the first closes the
\* channel and every idle connection
PoolClose ==
    /\ pool.made
    /\ pool' = IF pool.closed THEN pool
               ELSE [pool EXCEPT !.closed = TRUE, !.conns = <<>>,
                                 !.cs = [c \in DOMAIN pool.cs |->
                                            IF pool.cs[c] = "idle" THEN "closed"
                                            ELSE pool.cs[c]]]
    /\ sRes' = [op |-> "close", before |-> pool]
    /\ UNCHANGED poolRest

\* the server closes a connection, or a Do on it fails and closes it: its
\* liveness probe no longer times out
PoolBreak(c) ==
    /\ pool.made /\ c \in 1..Len(pool.cs)
    /\ pool.cs[c] \in {"out", "idle"} /\ pool.alive[c]
    /\ pool' = [pool EXCEPT !.alive[c] = FALSE]
    /\ UNCHANGED <<sRes, poolRest>>

PoolNext ==
    \/ \E i \in 0..MaxIdle, a \in 0..MaxActive : PoolNew(i, a)
    \/ \E d \in BOOLEAN : PoolGet(d)
    \/ \E c \in 1..MaxDials : PoolPut(c)
    \/ PoolClose
    \/ \E c \in 1..MaxDials : PoolBreak(c)

SpecPool == Init /\ [][PoolNext]_vars

\* C26: a get on a closed pool fails with the closed-pool error; on an
\* open pool it returns the oldest idle connection if that one is alive,
\* else it dials when max_active is 0 or the count is below max_active and
\* fails as exhausted otherwise.  With max_active > 0 the count never
\* exceeds it, and the get that follows a put made at the limit is never
\* refused as exhausted and succeeds when its dial, if any, succeeds.
GetContract ==
    /\ (pool.made /\ pool.maxActive > 0) => pool.active <= pool.maxActive
    /\ sRes.op = "get" =>
           LET b == sRes.before
               a == sRes.after
               reuse == b.conns # <<>> /\ b.alive[Head(b.conns)]
               count == IF b.conns # <<>> THEN b.active - 1 ELSE b.active
           IN  /\ b.closed => (sRes.err = "closed" /\ a = b)
               /\ (~b.closed /\ reuse) =>
                      /\ sRes.err = "none" /\ sRes.conn = Head(b.conns)
                      /\ a.cs[sRes.conn] = "out" /\ a.active = b.active
               /\ (~b.closed /\ ~reuse) =>
                      IF b.maxActive = 0 \/ count < b.maxActive
                      THEN IF sRes.dialOk
                           THEN /\ sRes.err = "none" /\ sRes.conn = Len(b.cs) + 1
                                /\ a.cs[sRes.conn] = "out" /\ a.active = count + 1
                           ELSE sRes.err = "dial" /\ a.active = count
                      ELSE sRes.err = "exhausted"
               /\ sRes.afterPut =>
                      (sRes.err # "exhausted" /\ (sRes.dialOk => sRes.err = "none"))

\* C26: a pool at its limit has taken a connection back, and the get after
\* that put returned a connection with the pool at its limit again and
\* every counted connection out.
GetContractSeen ==
    /\ sRes.op = "get" /\ sRes.afterPut /\ sRes.err = "none"
    /\ sRes.after.active = sRes.after.maxActive
    /\ Cardinality(CheckedOut(sRes.after)) = sRes.after.maxActive

\* C27: a put on an open pool appends the connection to the idle set and
\* leaves the count when the set has room, and closes the connection and
\* decrements the count when the set is full.  While the pool is open the
\* count is the number of connections out plus the number idle, and the
\* idle set holds at most max_idle connections.
PutContract ==
    /\ (pool.made /\ ~pool.closed) =>
           /\ pool.active = Cardinality(CheckedOut(pool)) + Len(pool.conns)
           /\ Len(pool.conns) <= pool.maxIdle
    /\ (sRes.op = "put" /\ ~sRes.before.closed) =>
           LET b == sRes.before
               a == sRes.after
           IN  IF Len(b.conns) < b.maxIdle
               THEN /\ a.conns = Append(b.conns, sRes.conn)
                    /\ a.cs[sRes.conn] = "idle"
                    /\ a.active = b.active
               ELSE /\ a.conns = b.conns
                    /\ a.cs[sRes.conn] = "closed"
                    /\ a.active = b.active - 1

\* C27: a connection has been put on an open pool whose idle set was full,
\* while another connection was still out.
PutContractSeen ==
    /\ sRes.op = "put" /\ ~sRes.before.closed
    /\ Len(sRes.before.conns) = sRes.before.maxIdle
    /\ sRes.after.active = sRes.before.active - 1
    /\ CheckedOut(sRes.after) # {}

(***************************************************************************)
(* Compaction with a snapshot writer that can fail: Engine.Compact with    *)
(* Writer.Create step by step, while the connections go on setting keys.   *)
(***************************************************************************)
cfRest ==
    <<store, now, walFile, walErr, syncMode, walEntryCount, eState, clients, nOps, opens,
      cleanStop, codecVars, damaged, srvVars, moreVars>>

\* Compact: snapshotWriter.Create(data) begins with the copied keyspace
CfCreateTemp ==
    /\ Running /\ cpc = "copied"
    /\ SwCreateTemp(cdata)

\* a Compact that truncates the WAL although Create failed
CompactAbortTruncating ==
    /\ cpc' = "idle"
    /\ cdata' = EmptyData
    /\ sRes' = [op |-> "compact", err |-> TRUE]
    /\ walFile' = FileOf(<<>>)
    /\ walEntryCount' = 0
    /\ UNCHANGED <<store, now, walErr, syncMode, eState, clients, nOps, opens, cleanStop,
                   codecVars, damaged, srvVars, moreVars>>

\* Compact: Create returned an error and Compact returns it; the deferred
\* e.mu.Unlock() runs and nothing after Create does
CompactAbort ==
    /\ cpc' = "idle"
    /\ cdata' = EmptyData
    /\ sRes' = [op |-> "compact", err |-> TRUE]
    /\ UNCHANGED cfRest

\* Create: os.Create of the temporary file fails
CfCreateFail ==
    /\ Running /\ cpc = "copied" /\ swPc = "idle" /\ nOps < MaxOps
    /\ CompactAbort
    /\ UNCHANGED <<snapVars, snapFile>>

\* Create: Encode, Flush, Sync or Rename fails, the temporary file is
\* removed
CfFail ==
    /\ Running /\ cpc = "copied"
    /\ swPc \in {"created", "encoded", "flushed", "closed"}
    /\ PutFile(tempPath(now), NoFile)
    /\ swPc' = "idle"
    /\ CompactAbort
    /\ UNCHANGED <<swOld, swNew>>

\* Create: os.Rename succeeds, Create returns nil and Compact goes on
CfRename ==
    /\ Running /\ cpc = "copied" /\ swPc = "closed"
    /\ RenameFile(tempPath(now), finalPath)
    /\ swPc' = "idle"
    /\ cpc' = "snapped"
    /\ UNCHANGED <<cfRest, sRes, cdata, swOld, swNew>>

CfNext ==
    \/ Open
    \/ \E c \in Clients, k \in FaultKeys : SetLog(c, k, ValueOf(c), "ok", 0)
    \/ \E c \in Clients : SetApply(c)
    \/ \E c \in Clients : SetAck(c)
    \/ CompactCopy
    \/ CfCreateTemp
    \/ CfCreateFail
    \/ SwEncode
    \/ SwFlush
    \/ SwSync
    \/ SwClose
    \/ CfRename
    \/ CfFail
    \/ CompactTruncate
    \/ CompactReset

SpecCompactFail == Init /\ [][CfNext]_vars

\* a step of the compaction: of Compact itself or of Create inside it
CompactStep == cpc' # cpc \/ swPc' # swPc

\* C28: no step of a compaction whose snapshot has not been renamed into
\* place, the step that returns Create's error included, changes the WAL,
\* the count of WAL entries, the snapshot file or the keyspace; the
\* failing step returns with the engine running and its lock released.
FailedCompactionKeeps ==
    [][(CompactStep /\ cpc \in {"idle", "copied"} /\ cpc' \in {"idle", "copied"}) =>
           /\ walFile' = walFile /\ walEntryCount' = walEntryCount
           /\ snapFile' = snapFile /\ store' = store
           /\ eState' = "running"
           /\ (cpc = "copied" /\ cpc' = "idle") => (sRes'.op = "compact" /\ sRes'.err)]_vars

\* C28: a compaction has failed in Create over a WAL that holds records and
\* a snapshot of an earlier compaction; the WAL, its count and the snapshot
\* are still there and a set is going on after it.
FailedCompactionSeen ==
    /\ sRes.op = "compact" /\ sRes.err /\ cpc = "idle" /\ Running
    /\ walFile.bytes # <<>> /\ walEntryCount > 0 /\ snapFile.exists
    /\ tmpFile = NoFile

(***************************************************************************)
(* The background compaction check: compactionLoop's tick with             *)
(* needsCompaction, next to the needs_compaction value of CompactionStats, *)
(* on an engine made with or without Options.EnableAnalytics.              *)
(***************************************************************************)
\* Options.MaxWALEntries and Options.MaxWALSize (in characters of the WAL)
MaxWALEntries == 2
MaxWALSize == 34

\* what ShouldCompactNow reads: whether the hour is one of optimalHours,
\* whether the day is Saturday or Sunday, how the last request rate
\* compares with lowTrafficRate and highTrafficRate ("none": no rate yet),
\* and whether the last compaction is more than 24 hours ago
Moments ==
    [optimal : BOOLEAN, weekend : BOOLEAN, rate : {"none", "low", "mid", "high"},
     longAgo : BOOLEAN]

\* (s *SmartScheduler) ShouldCompactNow, in tenths
ShouldCompactNow(m) ==
    LET score == 5 + (IF m.optimal THEN 3 ELSE 0) + (IF m.weekend THEN 1 ELSE 0)
                   + (IF m.rate = "low" THEN 2 ELSE IF m.rate = "high" THEN -2 ELSE 0)
                   + (IF m.longAgo THEN 1 ELSE 0)
    IN  IF score > 10 THEN 10 ELSE IF score < 0 THEN 0 ELSE score

\* (w *WAL) Size
WALSize(file) == Len(file.bytes)

\* (e *Engine) needsCompaction
needsCompaction(count, size, analytics, m) ==
    \/ count >= MaxWALEntries
    \/ size >= MaxWALSize
    \/ /\ analytics
       /\ ShouldCompactNow(m) > 7
       /\ (count >= MaxWALEntries \div 2 \/ size >= MaxWALSize \div 2)

\* CompactionStats: the needs_compaction entry
StatsNeedsCompaction(count, size) == count >= MaxWALEntries \/ size >= MaxWALSize

schedRest ==
    <<now, syncMode, snapFile, cpc, cdata, nOps, cleanStop, sRes, codecVars, damaged, snapVars,
      srvVars, srv, socks, pool, lk, bg>>

\* engine.New with Options.EnableAnalytics set or not
OpenWith(analytics) ==
    /\ opens = 0
    /\ OpenFiles
    /\ sched' = [enableAnalytics |-> analytics]
    /\ UNCHANGED schedRest

\* compactionLoop: the ticker fires, needsCompaction is asked and Compact
\* is called when it says so (here up to Compact's copy of the keyspace);
\* stats is what CompactionStats reports at that moment
LoopTick(m) ==
    /\ Running /\ cpc = "idle"
    /\ LET size == WALSize(walFile)
           need == needsCompaction(walEntryCount, size, sched.enableAnalytics, m)
       IN  /\ sRes' = [op |-> "check", need |-> need, count |-> walEntryCount, size |-> size,
                       stats |-> StatsNeedsCompaction(walEntryCount, size),
                       started |-> need]
           /\ IF need
              THEN cdata' = StoreRange(store, now) /\ cpc' = "copied"
              ELSE UNCHANGED <<cdata, cpc>>
    /\ UNCHANGED <<store, now, walFile, walErr, syncMode, snapFile, walEntryCount, eState,
                   clients, nOps, opens, cleanStop, sideVars>>

SchedNext ==
    \/ \E a \in BOOLEAN : OpenWith(a)
    \/ \E c \in Clients, k \in FaultKeys : SetLog(c, k, ValueOf(c), "ok", 0)
    \/ \E c \in Clients : SetApply(c)
    \/ \E c \in Clients : SetAck(c)
    \/ \E m \in Moments : LoopTick(m)
    \/ CompactSnapshot
    \/ CompactTruncate
    \/ CompactReset

SpecSched == Init /\ [][SchedNext]_vars

\* C29: the background check finds that compaction is needed exactly when
\* the count of WAL entries has reached max_wal_entries or the WAL's size
\* has reached max_wal_size, it starts a compaction exactly then, and the
\* needs_compaction value of the statistics is the value it used.
NeedsCompactionRule ==
    sRes.op = "check" =>
        /\ sRes.need <=> (sRes.count >= MaxWALEntries \/ sRes.size >= MaxWALSize)
        /\ sRes.started <=> sRes.need
        /\ sRes.stats <=> sRes.need

(***************************************************************************)
(* A compaction with nothing else writing: one connection sets keys with   *)
(* and without TTL and deletes them, the clock moves, the TTL manager      *)
(* sweeps, and Compact runs from its copy to its return while the          *)
(* connection is in no call and no sweep runs.                             *)
(***************************************************************************)
quietRest ==
    <<store, now, walFile, walErr, syncMode, snapFile, eState, clients, nOps, opens, cleanStop,
      sideVars>>

\* Compact: e.mu.Lock() and the copy of the keyspace by Range
QuietCopy ==
    /\ Running /\ AllIdle /\ cpc = "idle"
    /\ cdata' = StoreRange(store, now)
    /\ cpc' = "copied"
    /\ sRes' = [op |-> "copy", at |-> now, before |-> store]
    /\ UNCHANGED <<walEntryCount, quietRest>>

\* Compact: e.walEntryCount = 0, the deferred unlock and return nil
QuietReset ==
    /\ Running /\ cpc = "truncated"
    /\ walEntryCount' = 0
    /\ cpc' = "idle"
    /\ cdata' = EmptyData
    /\ sRes' = [op |-> "compact", at |-> sRes.at, before |-> sRes.before, done |-> now,
                ops |-> nOps]
    /\ UNCHANGED quietRest

\* the connection's calls and the sweep begin while no compaction runs
QuietSet(k) == cpc = "idle" /\ SetLog(1, k, ValueOf(1), "ok", 0)

QuietSetWithTTL(k, ttl) == cpc = "idle" /\ SetWithTTLLog(1, k, ValueOf(1), ttl, "ok", 0)

QuietSweep == cpc = "idle" /\ Sweep

QuietNext ==
    \/ Open
    \/ \E k \in Keys : QuietSet(k)
    \/ SetApply(1)
    \/ SetAck(1)
    \/ \E k \in Keys, ttl \in 1..MaxTTL : QuietSetWithTTL(k, ttl)
    \/ SetWithTTLApply(1)
    \/ SetWithTTLAck(1)
    \/ QuietSweep
    \/ Tick
    \/ QuietCopy
    \/ CompactSnapshot
    \/ CompactTruncate
    \/ QuietReset

SpecQuiet == Init /\ [][QuietNext]_vars

\* the answer of a get of key on the keyspace data at time t
GetAnswer(data, key, t) ==
    LET r == StoreGet(data, key, t) IN <<r.ok, r.value>>

\* C30: when a compaction has returned and nothing has been written since,
\* the snapshot file loads, its data holds every pair that had not reached
\* its expiry when the keyspace was copied and no pair that had passed it,
\* its key count is the size of its data, the WAL is empty and its entry
\* count is 0, every get answers as it would on the keyspace from before
\* the compaction, and recovery from the two files gives the snapshot's
\* key-value map; the first set after it is appended to the empty WAL.
CompactPost ==
    /\ (sRes.op = "compact" /\ nOps = sRes.ops /\ now = sRes.done) =>
           LET l == Load(snapFile)
               b == sRes.before
               r == recover(snapFile, walFile)
           IN  /\ l.ok /\ l.found
               /\ \A k \in DOMAIN b :
                      (b[k].ExpiresAt = 0 \/ sRes.at < b[k].ExpiresAt) =>
                          (k \in DOMAIN l.snap.Data /\ l.snap.Data[k] = b[k].Value)
               /\ \A k \in DOMAIN l.snap.Data :
                      k \in DOMAIN b /\ ~(b[k].ExpiresAt # 0 /\ sRes.at > b[k].ExpiresAt)
               /\ l.snap.KeyCount = Cardinality(DOMAIN l.snap.Data)
               /\ walFile = FileOf(<<>>) /\ walEntryCount = 0
               /\ \A k \in Keys : GetAnswer(store, k, now) = GetAnswer(b, k, now)
               /\ r.ok /\ ValuesOf(r.data) = l.snap.Data
    /\ (sRes.op = "compact" /\ nOps = sRes.ops + 1 /\ clients[1].pc = "apply") =>
           /\ clients[1].walOk = "ok" /\ clients[1].flushed
           /\ walFile.bytes # <<>> /\ recover(snapFile, walFile).count = 1

\* C30: a compaction has returned on a keyspace that held a pair past its
\* expiry and a pair without one, after writes that had filled the WAL.
CompactPostSeen ==
    /\ sRes.op = "compact" /\ nOps = sRes.ops /\ now = sRes.done
    /\ \E k \in DOMAIN sRes.before :
           sRes.before[k].ExpiresAt # 0 /\ sRes.at > sRes.before[k].ExpiresAt
    /\ \E k \in DOMAIN sRes.before : sRes.before[k].ExpiresAt = 0
    /\ nOps >= 2

(***************************************************************************)
(* Compaction whose WAL truncation can fail: one connection sets, deletes  *)
(* and clears, Compact runs while the connection is in no call, and        *)
(* wal.Truncate fails at one of its steps or succeeds; the engine is then  *)
(* stopped and opened again.                                               *)
(***************************************************************************)
\* the values written: a plain one and the two bytes backslash, n
ReplayValues == {<<"v">>, <<BS, "n">>}

\* the step of Truncate that fails, or "ok"
TruncateOutcomes == {"ok", "close", "truncate", "reopen"}

\* (w *WAL) Truncate: the file afterwards, whether the handle is left
\* unusable (the bufio.Writer holds an error, or w.file is the closed
\* file) and whether nil was returned.  Flush fails when the writer holds
\* an error; a failing file.Close or os.Truncate leaves the content and the
\* closed file, a failing reopen leaves the emptied file and the closed file
WALTruncate(file, err, outcome) ==
    IF err THEN [file |-> file, err |-> TRUE, ok |-> FALSE]
    ELSE IF outcome \in {"close", "truncate"} THEN [file |-> file, err |-> TRUE, ok |-> FALSE]
    ELSE IF outcome = "reopen" THEN [file |-> FileOf(<<>>), err |-> TRUE, ok |-> FALSE]
    ELSE [file |-> FileOf(<<>>), err |-> FALSE, ok |-> TRUE]

\* Compact: e.wal.Truncate() and the return of its error
TruncateStep(outcome) ==
    /\ Running /\ cpc = "snapped"
    /\ LET t == WALTruncate(walFile, walErr, outcome)
       IN  /\ walFile' = t.file
           /\ walErr' = t.err
           /\ IF t.ok THEN cpc' = "truncated" /\ UNCHANGED cdata
              ELSE cpc' = "idle" /\ cdata' = EmptyData
           /\ sRes' = [op |-> "truncate", ok |-> t.ok, outcome |-> outcome, ops |-> nOps,
                       kept |-> (t.file = walFile), at |-> sRes.at, before |-> sRes.before]
    /\ UNCHANGED <<store, now, syncMode, snapFile, walEntryCount, eState, clients, nOps, opens,
                   cleanStop, sideVars>>

\* the connection's calls begin while no compaction runs
ReplaySet(k, v) == cpc = "idle" /\ SetLog(1, k, v, "ok", 0)

ReplayDelete(k) == cpc = "idle" /\ DeleteCheck(1, k)

ReplayClear == cpc = "idle" /\ ClearLog(1, "ok", 0)

TruncNext ==
    \/ Open
    \/ Close
    \/ \E k \in FaultKeys, v \in ReplayValues : ReplaySet(k, v)
    \/ SetApply(1)
    \/ SetAck(1)
    \/ \E k \in FaultKeys : ReplayDelete(k)
    \/ DeleteLog(1, "ok", 0)
    \/ DeleteApply(1)
    \/ DeleteAck(1)
    \/ ReplayClear
    \/ ClearApply(1)
    \/ ClearAck(1)
    \/ QuietCopy
    \/ CompactSnapshot
    \/ \E o \in TruncateOutcomes : TruncateStep(o)
    \/ QuietReset

SpecTrunc == Init /\ [][TruncNext]_vars

\* C31: when Compact has written the snapshot and the truncation has
\* failed with the WAL as it was, loading the snapshot and replaying the
\* WAL succeeds and gives exactly the snapshot's key-value map.
ReplayIdempotent ==
    (sRes.op = "truncate" /\ ~sRes.ok /\ sRes.kept /\ nOps = sRes.ops) =>
        LET r == recover(snapFile, walFile)
            l == Load(snapFile)
        IN  l.ok /\ l.found /\ r.ok /\ ValuesOf(r.data) = l.snap.Data

\* C33: a Truncate that succeeds leaves the WAL empty, and after a Truncate
\* that succeeded or failed the next append succeeds.
TruncateLeavesUsable ==
    /\ (sRes.op = "truncate" /\ sRes.ok /\ nOps = sRes.ops) => walFile = FileOf(<<>>)
    /\ (sRes.op = "truncate" /\ nOps = sRes.ops + 1 /\ Running) =>
           clients[1].walOk # "fail"

(***************************************************************************)
(* A WAL file whose last record is torn.                                   *)
(***************************************************************************)
\* the bytes of a WAL file up to and including its last newline: the
\* records written in full
CompleteBytes(bytes) ==
    LET ends == {i \in 1..Len(bytes) : bytes[i] = NL}
    IN  IF ends = {} THEN <<>>
        ELSE SubSeq(bytes, 1, CHOOSE i \in ends : \A j \in ends : j <= i)

\* the file ends in bytes that are not a whole record
TornTail(bytes) ==
    /\ bytes # <<>> /\ bytes[Len(bytes)] # NL
    /\ ~Decode(SubSeq(bytes, Len(CompleteBytes(bytes)) + 1, Len(bytes))).ok

\* one connection writes, the engine stops, the WAL file loses its tail
\* once, and the engine is opened again
TornNext ==
    \/ Open
    \/ Close
    \/ Crash
    \/ \E k \in Keys : SetLog(1, k, ValueOf(1), "ok", 0)
    \/ SetApply(1)
    \/ SetAck(1)
    \/ \E k \in Keys : DeleteCheck(1, k)
    \/ DeleteLog(1, "ok", 0)
    \/ DeleteApply(1)
    \/ DeleteAck(1)
    \/ ClearLog(1, "ok", 0)
    \/ ClearApply(1)
    \/ ClearAck(1)
    \/ TearTail

SpecTorn == Init /\ [][TornNext]_vars

\* C32: when New runs on a WAL file that ends in a partial record after
\* records that all decode, it succeeds with the keyspace of the snapshot
\* and those records; when a line before the last one does not decode, New
\* fails.
TornTailTolerated ==
    [][(eState \in {"closed", "crashed"} /\ eState' # eState /\ walFile.exists) =>
           LET whole == CompleteBytes(walFile.bytes)
               lines == SelectSeq(ScanLines(whole), LAMBDA l : l # <<>>)
               sound == \A i \in 1..Len(lines) : Decode(lines[i]).ok
               r == recover(snapFile, FileOf(whole))
           IN  /\ (TornTail(walFile.bytes) /\ sound) =>
                      (eState' = "running" /\ r.ok /\ store' = r.data)
               /\ ~sound => eState' = "failed"]_vars

(***************************************************************************)
(* The keyspace lock: goroutines call Get, TTL, Len, Set, SetWithTTL and   *)
(* Delete of the Store; each call takes Store.mu as its code does (Lock or *)
(* RLock), works on the map while it holds it, and releases it on return.  *)
(* sync.RWMutex lets no reader in while a writer holds the lock or a       *)
(* writer's Lock is waiting for the readers to leave.                      *)
(***************************************************************************)
StoreOps == {"get", "ttl", "len", "set", "setttl", "delete"}

\* the lock each method takes: s.mu.RLock() in TTL and Len, s.mu.Lock() in
\* the others, Get included
LockMode(op) == IF op \in {"ttl", "len"} THEN "r" ELSE "w"

lockRest ==
    <<now, walFile, walErr, syncMode, snapFile, walEntryCount, eState, clients, cpc, cdata,
      nOps, opens, cleanStop, sRes, codecVars, damaged, snapVars, srvVars, srv, socks, pool,
      sched, bg>>

\* a goroutine calls a method of the Store and reaches its Lock or RLock
StCall(g, op, key) ==
    /\ lk.g[g].st = "idle"
    /\ lk' = [lk EXCEPT !.g[g] = [st |-> "waiting", op |-> op, key |-> key]]
    /\ UNCHANGED <<store, lockRest>>

\* whether the goroutine's Lock or RLock can go on: RLock when no writer
\* holds or waits, Lock's first half when no other Lock is under way, its
\* second half when the readers have left
CanProceed(g) ==
    IF lk.g[g].st = "announced" THEN lk.readers = {}
    ELSE lk.writer = 0 /\ lk.pending = 0

\* Lock: the writer has the mutex's inner lock and new readers now wait
StAnnounce(g) ==
    /\ lk.g[g].st = "waiting" /\ LockMode(lk.g[g].op) = "w" /\ CanProceed(g)
    /\ lk' = [lk EXCEPT !.pending = g, !.g[g].st = "announced"]
    /\ UNCHANGED <<store, lockRest>>

\* RLock returns, or Lock returns once no reader is left
StEnter(g) ==
    /\ CanProceed(g)
    /\ \/ /\ lk.g[g].st = "waiting" /\ LockMode(lk.g[g].op) = "r"
          /\ lk' = [lk EXCEPT !.readers = @ \cup {g}, !.g[g].st = "inside"]
       \/ /\ lk.g[g].st = "announced"
          /\ lk' = [lk EXCEPT !.writer = g, !.pending = 0, !.g[g].st = "inside"]
    /\ UNCHANGED <<store, lockRest>>

\* the map after the method's body
StoreAfter(op, key) ==
    CASE op = "get" -> StoreGet(store, key, now).data
      [] op = "set" -> StoreSet(store, key, ValueOf(1))
      [] op = "setttl" -> StoreSetWithTTL(store, key, ValueOf(1), MaxTTL, now)
      [] op = "delete" -> StoreDelete(store, key).data
      [] OTHER -> store

\* the method's body and its deferred Unlock or RUnlock
StLeave(g) ==
    /\ lk.g[g].st = "inside"
    /\ store' = StoreAfter(lk.g[g].op, lk.g[g].key)
    /\ lk' = [lk EXCEPT !.readers = @ \ {g},
                        !.writer = IF @ = g THEN 0 ELSE @,
                        !.g[g] = [st |-> "idle", op |-> "none", key |-> <<>>]]
    /\ UNCHANGED lockRest

LockNext ==
    \/ \E g \in Goroutines, op \in StoreOps, k \in FaultKeys : StCall(g, op, k)
    \/ \E g \in Goroutines : StAnnounce(g)
    \/ \E g \in Goroutines : StEnter(g)
    \/ \E g \in Goroutines : StLeave(g)
    \/ Tick

SpecLock == Init /\ [][LockNext]_vars

\* a call that only reads: ttl, len, or a get of a key that is in the map
\* and has not reached its expiry
PureReader(g) ==
    \/ lk.g[g].op \in {"ttl", "len"}
    \/ /\ lk.g[g].op = "get" /\ lk.g[g].key \in DOMAIN store
       /\ (store[lk.g[g].key].ExpiresAt = 0 \/ now < store[lk.g[g].key].ExpiresAt)

\* C34: a reading call that waits for the keyspace lock is kept out only
\* while a call that writes (set, delete, or a get that removes an expired
\* entry) holds the lock or is taking it; two reading calls are never kept
\* apart.
ReadersShare ==
    \A g \in Goroutines :
        (lk.g[g].st \in {"waiting", "announced"} /\ PureReader(g) /\ ~CanProceed(g)) =>
            \E h \in Goroutines \ {g} :
                lk.g[h].st \in {"inside", "announced"} /\ ~PureReader(h)

(***************************************************************************)
(* The TTL manager: internal/ttl, Manager.  New starts it; its goroutine   *)
(* expirationLoop calls checkAndDeleteExpired each time the ticker fires,  *)
(* until Stop.  One connection sets keys with a TTL and gives TTLs to      *)
(* keys, and the clock advances.                                           *)
(***************************************************************************)
MaxChecks == 4

bgRest ==
    <<now, syncMode, snapFile, cpc, cdata, nOps, cleanStop, sRes, codecVars, damaged, snapVars,
      srvVars, srv, socks, pool, sched, lk>>

\* the goroutines and the handle of an engine New has returned: New makes
\* the Manager, recovers, starts compactionLoop and calls Manager.Start
StartedWorkers ==
    [ttl |-> [on |-> TRUE, stats |-> NoStats], loop |-> TRUE, tick |-> FALSE,
     stop |-> FALSE, walOpen |-> TRUE, closed |-> FALSE]

\* engine.New with its background goroutines
BgOpen ==
    /\ OpenFiles
    /\ bg' = IF eState' = "running" THEN StartedWorkers ELSE NoWorkers
    /\ UNCHANGED bgRest

\* (m *Manager) checkAndDeleteExpired, run by expirationLoop when the
\* ticker has fired: DeleteExpired on the store, then the stats
checkAndDeleteExpired ==
    /\ Running /\ bg.ttl.on
    /\ bg.ttl.stats.ChecksPerformed < MaxChecks
    /\ LET d == StoreDeleteExpired(store, now)
       IN  /\ store' = d.data
           /\ bg' = [bg EXCEPT !.ttl.stats =
                        [TotalExpired |-> @.TotalExpired + d.deleted,
                         LastExpiredCount |-> d.deleted,
                         ChecksPerformed |-> @.ChecksPerformed + 1]]
    /\ UNCHANGED <<walFile, walErr, walEntryCount, eState, clients, opens, bgRest>>

\* Engine.Close with no call in progress: Manager.Stop waits for
\* expirationLoop to return, stopCompaction is closed, the WAL is closed
BgClose ==
    /\ Running /\ AllIdle /\ cpc = "idle"
    /\ eState' = "closed"
    /\ cleanStop' = TRUE
    /\ bg' = [bg EXCEPT !.ttl.on = FALSE, !.loop = FALSE, !.stop = TRUE, !.walOpen = FALSE,
                        !.closed = TRUE]
    /\ UNCHANGED <<store, now, walFile, walErr, syncMode, snapFile, walEntryCount, clients,
                   cpc, cdata, nOps, opens, sRes, codecVars, damaged, snapVars, srvVars, srv,
                   socks, pool, sched, lk>>

SweepSetWithTTL(k, ttl) == SetWithTTLLog(1, k, ValueOf(1), ttl, "ok", 0)

SweepExpire(k, ttl) == Expire(1, k, ttl)

SweepNext ==
    \/ BgOpen
    \/ BgClose
    \/ \E k \in Keys, ttl \in 1..MaxTTL : SweepSetWithTTL(k, ttl)
    \/ SetWithTTLApply(1)
    \/ SetWithTTLAck(1)
    \/ \E k \in Keys, ttl \in 1..MaxTTL : SweepExpire(k, ttl)
    \/ checkAndDeleteExpired
    \/ Tick

SpecSweep == Init /\ [][SweepNext]_vars

\* the ticker fires every CheckInterval while the Manager runs, and
\* expirationLoop then calls checkAndDeleteExpired
SpecSweepLive == Init /\ [][SweepNext]_vars /\ WF_vars(checkAndDeleteExpired)

\* C35: while the engine runs, an entry whose expiry has passed is removed
\* from the map in the end though no client reads it; and each sweep adds
\* the number of entries it removed, all that had expired, to TotalExpired
\* and one to ChecksPerformed.
ActiveExpiration ==
    /\ \A k \in Keys :
           (/\ Running /\ bg.ttl.stats.ChecksPerformed < MaxChecks
            /\ k \in DOMAIN store /\ IsExpired(store[k], now))
               ~> (~Running \/ k \notin DOMAIN store \/ ~IsExpired(store[k], now))
    /\ [][(bg'.ttl.stats # bg.ttl.stats /\ eState' = eState) =>
             LET gone == {k \in DOMAIN store : IsExpired(store[k], now)}
             IN  /\ DOMAIN store' = DOMAIN store \ gone
                 /\ bg'.ttl.stats.TotalExpired =
                        bg.ttl.stats.TotalExpired + Cardinality(gone)
                 /\ bg'.ttl.stats.ChecksPerformed = bg.ttl.stats.ChecksPerformed + 1]_vars

\* the sweeper has removed two entries in one check, after a check that
\* found none
ActiveExpirationSeen ==
    /\ Running /\ store = EmptyData
    /\ bg.ttl.stats.LastExpiredCount = 2
    /\ bg.ttl.stats.ChecksPerformed > 1

(***************************************************************************)
(* Engine.Close and the background goroutines.  compactionLoop selects     *)
(* between the ticker and stopCompaction; Engine.Close stops the TTL       *)
(* manager and waits for it, closes stopCompaction, stops the ticker and   *)
(* closes the WAL.  It takes no lock of the engine and does not wait for   *)
(* compactionLoop.                                                         *)
(***************************************************************************)
haltRest ==
    <<now, syncMode, nOps, opens, sRes, codecVars, damaged, snapVars, srvVars, srv, socks, pool,
      sched, lk>>

\* engine.New, once
HaltOpen == opens = 0 /\ BgOpen

\* compactionTicker fires: the channel holds one tick
TickerFire ==
    /\ Running /\ ~bg.stop /\ ~bg.tick
    /\ bg' = [bg EXCEPT !.tick = TRUE]
    /\ UNCHANGED <<store, walFile, walErr, snapFile, walEntryCount, eState, clients, cpc, cdata,
                   cleanStop, haltRest>>

\* compactionLoop receives the tick: needsCompaction, and Compact up to
\* its copy of the keyspace when it says so
LoopTake ==
    /\ bg.loop /\ bg.tick /\ cpc = "idle"
    /\ bg' = [bg EXCEPT !.tick = FALSE]
    /\ IF StatsNeedsCompaction(walEntryCount, WALSize(walFile))
       THEN cdata' = StoreRange(store, now) /\ cpc' = "copied"
       ELSE UNCHANGED <<cdata, cpc>>
    /\ UNCHANGED <<store, walFile, walErr, snapFile, walEntryCount, eState, clients, cleanStop,
                   haltRest>>

\* compactionLoop receives from the closed stopCompaction and returns
LoopExit ==
    /\ bg.loop /\ bg.stop /\ cpc = "idle"
    /\ bg' = [bg EXCEPT !.loop = FALSE]
    /\ UNCHANGED <<store, walFile, walErr, snapFile, walEntryCount, eState, clients, cpc, cdata,
                   cleanStop, haltRest>>

\* Engine.Compact in compactionLoop: e.snapshotWriter.Create(data)
LoopSnapshot ==
    /\ bg.loop /\ cpc = "copied"
    /\ snapFile' = FileOf(EncodeSnapshot(SnapshotOf(cdata, now)))
    /\ cpc' = "snapped"
    /\ UNCHANGED <<store, walFile, walErr, walEntryCount, eState, clients, cdata, cleanStop, bg,
                   haltRest>>

\* Engine.Compact in compactionLoop: e.wal.Truncate().  On a WAL that was
\* closed its file.Close returns an error, and so does Compact
LoopTruncate ==
    /\ bg.loop /\ cpc = "snapped"
    /\ IF walErr \/ ~bg.walOpen
       THEN /\ cpc' = "idle"
            /\ cdata' = EmptyData
            /\ UNCHANGED walFile
       ELSE /\ walFile' = FileOf(<<>>)
            /\ cpc' = "truncated"
            /\ UNCHANGED cdata
    /\ UNCHANGED <<store, walErr, snapFile, walEntryCount, eState, clients, cleanStop, bg,
                   haltRest>>

\* Engine.Compact in compactionLoop: e.walEntryCount = 0 and the return
LoopReset ==
    /\ bg.loop /\ cpc = "truncated"
    /\ walEntryCount' = 0
    /\ cpc' = "idle"
    /\ cdata' = EmptyData
    /\ UNCHANGED <<store, walFile, walErr, snapFile, eState, clients, cleanStop, bg, haltRest>>

\* (e *Engine) Close, from its call to its return, with no client call in
\* progress: ttlManager.Stop (which waits for expirationLoop),
\* close(stopCompaction), compactionTicker.Stop, wal.Close (Flush, and
\* file.Close when the flush went through)
EngineClose ==
    /\ Running /\ AllIdle
    /\ eState' = "closed"
    /\ cleanStop' = TRUE
    /\ bg' = [bg EXCEPT !.ttl.on = FALSE, !.stop = TRUE, !.walOpen = walErr, !.closed = TRUE]
    /\ UNCHANGED <<store, walFile, walErr, snapFile, walEntryCount, clients, cpc, cdata,
                   haltRest>>

HaltSet(c, k) == SetLog(c, k, ValueOf(c), "ok", 0)

HaltNext ==
    \/ HaltOpen
    \/ EngineClose
    \/ \E c \in Clients, k \in FaultKeys : HaltSet(c, k)
    \/ \E c \in Clients : SetApply(c)
    \/ \E c \in Clients : SetAck(c)
    \/ \E k \in FaultKeys, ttl \in 1..MaxTTL : SweepExpire(k, ttl)
    \/ checkAndDeleteExpired
    \/ Tick
    \/ TickerFire
    \/ LoopTake
    \/ LoopExit
    \/ LoopSnapshot
    \/ LoopTruncate
    \/ LoopReset

SpecHalt == Init /\ [][HaltNext]_vars

\* C36: once Engine.Close has returned, the TTL sweeper and the compaction
\* checker take no further step: the keyspace, the sweeper's stats, the
\* snapshot file and the WAL file stay as they are and no compaction is
\* in progress or moves on; and the WAL's handle is closed only after its
\* flush went through.
CloseHaltsWorkers ==
    [][bg.closed =>
          /\ cpc = "idle" /\ cpc' = "idle"
          /\ store' = store
          /\ bg'.ttl.stats = bg.ttl.stats
          /\ snapFile' = snapFile
          /\ walFile' = walFile
          /\ ~bg.walOpen => ~walErr]_vars

\* the records in the WAL file: its non-empty lines
RecordsIn(file) == Len(SelectSeq(ScanLines(file.bytes), LAMBDA l : l # <<>>))

\* C37: whenever no engine call and no compaction is in progress,
\* walEntryCount is the number of records in the WAL file: after New has
\* recovered, after any interleaving of Set, Delete and Clear of two
\* connections, and after a compaction that ran along with them.
CountMatchesWAL ==
    (Running /\ AllIdle /\ cpc = "idle") => walEntryCount = RecordsIn(walFile)

(***************************************************************************)
(* SCAN with any cursor: strconv.Atoi accepts every integer, negative ones *)
(* included, and processCommand passes it to Store.Scan as it is.          *)
(***************************************************************************)
Cursors == (0 - 1)..(MaxStored + 1)

\* the keys of the keyspace that have not expired and match the pattern
Matching(data, pattern, t) ==
    {k \in DOMAIN data : ~IsExpired(data[k], t) /\ matchPattern(pattern, k)}

\* SCAN cursor MATCH pattern COUNT count
ScanAt(cursor, pattern, count) ==
    /\ \E order \in rangeOrders(store) :
           LET r == StoreScan(store, cursor, pattern, count, order, now)
           IN  sRes' = [op |-> "scanat", cursor |-> cursor, pattern |-> pattern,
                        count |-> count, next |-> r.next, keys |-> r.keys, fault |-> r.fault,
                        n |-> Cardinality(Matching(store, pattern, now))]
    /\ UNCHANGED <<store, now, engineRest, sideVars>>

\* SCAN again, with the cursor the last reply gave
ScanAtNext ==
    /\ sRes.op = "scanat" /\ sRes.next # 0
    /\ ScanAt(sRes.next, sRes.pattern, sRes.count)

CursorNext ==
    \/ \E k \in Keys, ttl \in 0..MaxTTL : ScanLoad(k, ttl)
    \/ \E c \in Cursors, p \in ScanPatterns, n \in 1..MaxStored : ScanAt(c, p, n)
    \/ ScanAtNext
    \/ Tick

SpecCursor == StoreInit /\ [][CursorNext]_vars

\* C38: SCAN returns for every integer cursor; with a cursor below 0 or
\* not below the number of matching keys the reply is cursor 0 and no
\* key; and the cursor a reply gives is 0 or greater than the cursor of
\* the call, so that following it comes to 0.
ScanTotal ==
    sRes.op = "scanat" =>
        /\ ~sRes.fault
        /\ (sRes.cursor < 0 \/ sRes.cursor >= sRes.n) => (sRes.next = 0 /\ sRes.keys = <<>>)
        /\ sRes.next = 0 \/ sRes.next > sRes.cursor

\* connection c is in a Delete that has found its key present: it goes on
\* to append a DELETE record and to return true
FoundPresent(c) == clients[c].op = "delete" /\ clients[c].pc \in {"log", "apply", "count"}

\* C39: of the Deletes of one key that run at the same time only one finds
\* the key present, appends a DELETE record and returns true; and a Delete
\* that finds its key absent appends no record and counts none.
DeleteOnce ==
    /\ [](\A c, d \in Clients :
              (c # d /\ FoundPresent(c) /\ FoundPresent(d)) => clients[c].key # clients[d].key)
    /\ [][(Running /\ nOps' = nOps + 1 /\ clients' = clients) =>
              (walFile' = walFile /\ walEntryCount' = walEntryCount)]_vars

(***************************************************************************)
(* INCR, DECR and APPEND on keys with an expiry: one connection sends      *)
(* SETEX, SET, EXPIRE, INCR, DECR and APPEND while the clock runs.         *)
(***************************************************************************)
FrameNext ==
    \/ Open
    \/ \E k \in FaultKeys, n \in 1..MaxTTL : SrvSetex(1, k, n, <<"5">>)
    \/ \E k \in FaultKeys : SrvSet(1, k, <<"5">>, "ok", 0)
    \/ \E k \in FaultKeys : SrvExpire(1, k, MaxTTL)
    \/ \E k \in FaultKeys, d \in {1, 0 - 1} : SrvIncr(1, k, d)
    \/ \E k \in FaultKeys : SrvAppend(1, k, <<"1">>)
    \/ SrvWrite(1, "ok", 0)
    \/ SrvApply(1)
    \/ SrvAck(1)
    \/ Tick

SpecFrame == Init /\ [][FrameNext]_vars

\* C40: the store update of an INCR, a DECR or an APPEND on a key that has
\* an expiry still ahead leaves the key with that expiry.
ValueOnly ==
    [][\A c \in Clients :
           LET key == conns[c].key
           IN  (/\ conns[c].cmd \in {"INCR", "DECR", "APPEND"}
                /\ conns[c].stage = "engine" /\ clients[c].pc = "apply"
                /\ key \in DOMAIN store
                /\ store[key].ExpiresAt # 0 /\ ~IsExpired(store[key], now))
               => (key \in DOMAIN store' /\ store'[key].ExpiresAt = store[key].ExpiresAt)]_vars

=============================================================================
